---- MODULE Spec2Model ----
(***************************************************************************)
(* A model of HnH/di: the binding container (src/container.go) and the     *)
(* resolver (src/resolver.go).  reflect.Type values are strings, Go values *)
(* are records with an allocation identity, constructors and user          *)
(* functions are descriptors of their signature and of what they return.   *)
(***************************************************************************)
EXTENDS Integers, Sequences, FiniteSets, TLC

\* ---------------------------------------------------------------- bounds
\* successful Singleton / Factory / Implementation calls explored
MaxBinds == 2
\* values allocated over a behaviour
MaxAlloc == 2
\* depth of nested resolveBinding calls before the Go stack is taken to overflow
MaxDepth == 3
\* resolver objects made over a behaviour that calls With
MaxResolvers == 3
\* goroutines that call the package at the same time
NumProcs == 2
\* calls each goroutine makes over a behaviour
MaxCalls == 1
\* depth of the calls user code makes back into the package
MaxNest == 1

\* ---------------------------------------------------------------- Go values
DefaultBindName == "default"

\* the nil interface value
NilVal == [cls |-> "nil", id |-> 0, cerr |-> FALSE, fld |-> <<>>, constructed |-> FALSE, msg |-> ""]

\* a nil error, and the errors the package makes
NoErr == [code |-> "nil", arg |-> ""]
Err(code, arg) == [code |-> code, arg |-> arg]
ErrNotFound(abstraction) == Err("NotFound", abstraction)
\* a run-time panic of the reflect package (no error is returned)
Panic(why) == Err("panic", why)
\* the goroutine stack is exhausted by unbounded recursion
StackOverflow == Err("stack overflow", "")

\* reflect.TypeOf(v): the dynamic type of a value, by the struct it points to
TypeOf(v) == v.cls

\* the interfaces each concrete type of the test suite implements
Implements(t) ==
    CASE t = "*Circle"       -> {"Shape"}
      [] t = "*MySQL"        -> {"Database"}
      [] t = "*MongoDB"      -> {"Database", "Constructor"}
      [] t = "backgroundCtx" -> {"context.Context"}
      [] t = "*errorString"  -> {"error"}
      [] OTHER               -> {}

\* reflect.Type.AssignableTo
AssignableTo(t, abstraction) == t = abstraction \/ abstraction \in Implements(t)

\* the di-tagged fields of a struct type, in declaration order
Field(name, type, tag) == [name |-> name, type |-> type, tag |-> tag]
StructFields(t) ==
    CASE t = "*MongoDB"  -> << Field("Shape", "Shape", "type") >>
      [] t = "*struct{S;D}" -> << Field("S", "Shape", "type"), Field("D", "Database", "type") >>
      [] t = "*struct{kek}" -> << Field("kek", "Shape", "name") >>
      [] t = "*struct{S invalid}" -> << Field("S", "Shape", "invalid") >>
      [] t = "*struct{S omitempty;D}" ->
            << Field("S", "Shape", "type,omitempty"), Field("D", "Database", "type") >>
      [] OTHER           -> << >>

\* reflect.Kind of what a pointer points to ("" when the value is no pointer)
ElemKind(t) ==
    CASE t \in {"*Circle", "*MySQL", "*MongoDB", "*errorString"}          -> "struct"
      [] t \in {"*struct{S;D}", "*struct{kek}", "*struct{S invalid}"}     -> "struct"
      [] t = "*struct{S omitempty;D}"                                    -> "struct"
      [] t \in {"*[]Shape", "*[]Database"}                               -> "slice"
      [] t \in {"*map[string]Shape", "*map[string]Database", "*map[int]Shape"} -> "map"
      [] t = "*int"                                                      -> "int"
      [] OTHER                                                           -> ""

\* reflect.Type.Elem of a slice or map type, and reflect.Type.Key of a map type
ElemType(t) ==
    CASE t \in {"*[]Shape", "*map[string]Shape", "*map[int]Shape"} -> "Shape"
      [] t \in {"*[]Database", "*map[string]Database"}            -> "Database"
      [] OTHER                                                    -> ""
KeyType(t) == IF t = "*map[int]Shape" THEN "int" ELSE "string"

\* a value freshly allocated by user code
NewVal(cls, cerr, id) ==
    [cls |-> cls, id |-> id, cerr |-> cerr,
     fld |-> [i \in 1..Len(StructFields(cls)) |-> NilVal], constructed |-> FALSE, msg |-> ""]

\* an error value returned by user code
ErrVal(msg) ==
    [cls |-> "*errorString", id |-> 0, cerr |-> FALSE, fld |-> <<>>, constructed |-> FALSE, msg |-> msg]

\* ---------------------------------------------------------------- functions
\* What the package can learn of a function by reflection (kind, ins, outs) and
\* what the function returns when called: one template per output.
Tpl(cls, cerr) == [cls |-> cls, cerr |-> cerr]
NilTpl == Tpl("nil", FALSE)
ErrTpl == Tpl("error", FALSE)

Fn(name, kind, ins, outs, rets) ==
    [name |-> name, kind |-> kind, ins |-> ins, outs |-> outs, rets |-> rets, recv |-> NilVal]

\* the nil function of a Binding that has no factory
NilFn == Fn("nil", "nil", << >>, << >>, << >>)

\* the constructors of the test suite
Constructors ==
    { Fn("STRING!", "string", << >>, << >>, << >>),
      Fn("func()", "func", << >>, << >>, << >>),
      Fn("func() error", "func", << >>, <<"error">>, <<ErrTpl>>),
      Fn("newCircle", "func", << >>, <<"Shape">>, <<Tpl("*Circle", FALSE)>>),
      Fn("multi", "func", << >>, <<"Shape", "Database", "error">>,
         <<Tpl("*Circle", FALSE), Tpl("*MySQL", FALSE), NilTpl>>),
      Fn("bindError", "func", << >>, <<"Shape", "error">>, <<NilTpl, ErrTpl>>),
      Fn("withShape", "func", <<"Shape">>, <<"Database">>, <<Tpl("*MySQL", FALSE)>>),
      Fn("shapeOfShape", "func", <<"Shape">>, <<"Shape">>, <<Tpl("*Circle", FALSE)>>),
      Fn("shapeOfDatabase", "func", <<"Database">>, <<"Shape">>, <<Tpl("*Circle", FALSE)>>),
      Fn("pair", "func", << >>, <<"Database", "Database">>,
         <<Tpl("*MySQL", FALSE), Tpl("*MySQL", FALSE)>>),
      Fn("newMongoDB", "func", << >>, <<"Database">>, <<Tpl("*MongoDB", FALSE)>>),
      Fn("newMongoDBErr", "func", << >>, <<"Database">>, <<Tpl("*MongoDB", TRUE)>>),
      Fn("nilShape", "func", << >>, <<"Shape">>, <<NilTpl>>),
      Fn("context.Background", "func", << >>, <<"context.Context">>, <<Tpl("backgroundCtx", FALSE)>>) }

\* the method value t.Construct of a value that implements Constructor
ConstructOf(t) ==
    [name |-> "Construct", kind |-> "func", ins |-> <<"context.Context">>,
     outs |-> <<"error">>, rets |-> <<IF t.cerr THEN ErrTpl ELSE NilTpl>>, recv |-> t]

isError(t) == t = "error"

\* ---------------------------------------------------------------- state
VARIABLES
    bindings,   \* container.bindings of each container: type -> name -> Binding
    next,       \* number of values allocated so far (the identity of the latest)
    nbinds,     \* successful binds made on each container since Init
    last,       \* the latest call: its inputs, what it returned and what it invoked
    resolvers,  \* the resolver objects made so far, in the order they were made
    locks,      \* container.lock of each container
    stacks      \* the calls each goroutine is in, the outermost first, and how
                \* many calls it has made

vars == <<bindings, next, nbinds, last, resolvers, locks, stacks>>

Containers == {"c1", "c2"}

Procs == 1..NumProcs

\* sync.RWMutex: w is the goroutine that holds the writer mutex (0: none),
\* active whether its Lock has returned, readers the read locks each goroutine
\* holds.  RLock blocks while a writer holds or awaits the lock; Lock takes the
\* writer mutex, which bars new readers, and returns when the readers have left.
Unlocked == [w |-> 0, active |-> FALSE, readers |-> [p \in Procs |-> 0]]
RLockReady(m) == m.w = 0
RLocked(m, p) == [m EXCEPT !.readers[p] = @ + 1]
RUnlocked(m, p) == [m EXCEPT !.readers[p] = @ - 1]
LockReady(m) == m.w = 0
LockAwaited(m, p) == [m EXCEPT !.w = p]
LockReturns(m, p) == m.w = p /\ \A q \in Procs : m.readers[q] = 0
Locked(m, p) == [m EXCEPT !.active = TRUE]
Released(m, p) == [m EXCEPT !.w = 0, !.active = FALSE]

\* a goroutine that is in no call
Idle == [frames |-> << >>, calls |-> 0]

\* one goroutine calls the package at a time: no lock is contended
NoGoroutines ==
    /\ locks = [cnt \in Containers |-> Unlocked]
    /\ stacks = [p \in Procs |-> Idle]

\* Binding (the caller field, a file:line string for diagnostics, is left out)
Binding(factory, instance, fill) == [factory |-> factory, instance |-> instance, fill |-> fill]
ZeroBinding == Binding(NilFn, NilVal, FALSE)

\* m[k] = v on a Go map
Put(m, k, v) == [x \in DOMAIN m \cup {k} |-> IF x = k THEN v ELSE m[x]]
EmptyMap == << >>

\* a resolver: the containers it looks in, and the With() implementations
Resolver(containers, implementations) ==
    [containers |-> containers, implementations |-> implementations]

\* NewResolver
NewResolver(containers) == Resolver(containers, << >>)

\* With that adds the implementations given to those of the resolver
WithOfExtending(self, implementations) ==
    Resolver(self.containers, self.implementations \o implementations)

\* resolver.With: the resolver it returns; the containers are copied, the
\* implementations are those given
WithOf(self, implementations) == Resolver(self.containers, implementations)

\* With that also sets the implementations of the resolver it is called on
WithInPlace(rs, i, implementations) ==
    Append([rs EXCEPT ![i].implementations = implementations], WithOf(rs[i], implementations))

\* resolver.With called on the i-th resolver made: the resolvers afterwards (the
\* one called is as it was, the one returned is new)
With(rs, i, implementations) == Append(rs, WithOf(rs[i], implementations))

\* what user code has run during a call, in order
Effects(n, log) == [next |-> n, log |-> log]
Invoked(fn) == [fn |-> fn.name, on |-> fn.recv.id]

Min(S) == CHOOSE x \in S : \A y \in S : x <= y

\* container.ListBindings
ListBindings(cnt, abstraction) ==
    IF abstraction \in DOMAIN bindings[cnt]
    THEN [err |-> NoErr, bnds |-> bindings[cnt][abstraction]]
    ELSE [err |-> ErrNotFound(abstraction), bnds |-> EmptyMap]

\* getBinding whose With() implementations answer for every name
getBindingAnyName(r, abstraction, name) ==
    IF \E i \in 1..Len(r.implementations) :
          AssignableTo(TypeOf(r.implementations[i]), abstraction)
    THEN [err |-> NoErr,
          bnd |-> Binding(NilFn,
                          r.implementations[
                              Min({ i \in 1..Len(r.implementations) :
                                      AssignableTo(TypeOf(r.implementations[i]), abstraction) })],
                          FALSE)]
    ELSE IF \E i \in 1..Len(r.containers) :
               /\ abstraction \in DOMAIN bindings[r.containers[i]]
               /\ name \in DOMAIN bindings[r.containers[i]][abstraction]
    THEN [err |-> NoErr,
          bnd |-> bindings[r.containers[
                      Min({ i \in 1..Len(r.containers) :
                              /\ abstraction \in DOMAIN bindings[r.containers[i]]
                              /\ name \in DOMAIN bindings[r.containers[i]][abstraction] })]]
                          [abstraction][name]]
    ELSE [err |-> ErrNotFound(abstraction), bnd |-> ZeroBinding]

\* getBinding that stops at the first container that binds the type at all
getBindingFirstOfType(r, abstraction, name) ==
    LET withs == { i \in 1..Len(r.implementations) :
                     /\ AssignableTo(TypeOf(r.implementations[i]), abstraction)
                     /\ name = DefaultBindName }
        listed == { i \in 1..Len(r.containers) :
                      ListBindings(r.containers[i], abstraction).err = NoErr }
    IN  IF withs # {}
        THEN [err |-> NoErr, bnd |-> Binding(NilFn, r.implementations[Min(withs)], FALSE)]
        ELSE IF listed # {} /\ name \in DOMAIN ListBindings(r.containers[Min(listed)], abstraction).bnds
        THEN [err |-> NoErr,
              bnd |-> ListBindings(r.containers[Min(listed)], abstraction).bnds[name]]
        ELSE [err |-> ErrNotFound(abstraction), bnd |-> ZeroBinding]

\* getBinding that looks in the containers before the With() implementations
getBindingContainersFirst(r, abstraction, name) ==
    LET withs == { i \in 1..Len(r.implementations) :
                     /\ AssignableTo(TypeOf(r.implementations[i]), abstraction)
                     /\ name = DefaultBindName }
        found == { i \in 1..Len(r.containers) :
                     /\ ListBindings(r.containers[i], abstraction).err = NoErr
                     /\ name \in DOMAIN ListBindings(r.containers[i], abstraction).bnds }
    IN  IF found # {}
        THEN [err |-> NoErr,
              bnd |-> ListBindings(r.containers[Min(found)], abstraction).bnds[name]]
        ELSE IF withs # {}
        THEN [err |-> NoErr, bnd |-> Binding(NilFn, r.implementations[Min(withs)], FALSE)]
        ELSE [err |-> ErrNotFound(abstraction), bnd |-> ZeroBinding]

\* resolver.getBinding
getBinding(r, abstraction, name) ==
    LET withs == { i \in 1..Len(r.implementations) :
                     /\ AssignableTo(TypeOf(r.implementations[i]), abstraction)
                     /\ name = DefaultBindName }
        found == { i \in 1..Len(r.containers) :
                     /\ ListBindings(r.containers[i], abstraction).err = NoErr
                     /\ name \in DOMAIN ListBindings(r.containers[i], abstraction).bnds }
    IN  IF withs # {}
        THEN [err |-> NoErr, bnd |-> Binding(NilFn, r.implementations[Min(withs)], FALSE)]
        ELSE IF found # {}
        THEN [err |-> NoErr,
              bnd |-> ListBindings(r.containers[Min(found)], abstraction).bnds[name]]
        ELSE [err |-> ErrNotFound(abstraction), bnd |-> ZeroBinding]

\* reflect.Value.Call: the outputs of fn, its allocations numbered from st.next
\* (a string it returns is a constant, not an allocation)
CallFn(fn, st) ==
    LET allocs(i) == Cardinality({ j \in 1..i : fn.rets[j].cls \notin {"nil", "error", "string"} })
        out == [ i \in 1..Len(fn.rets) |->
                   CASE fn.rets[i].cls = "nil"   -> NilVal
                     [] fn.rets[i].cls = "error" -> ErrVal(fn.name)
                     [] fn.rets[i].cls = "string" -> NewVal("string", FALSE, 0)
                     [] OTHER -> NewVal(fn.rets[i].cls, fn.rets[i].cerr, st.next + allocs(i)) ]
    IN  [out |-> out,
         st  |-> Effects(st.next + allocs(Len(fn.rets)), Append(st.log, Invoked(fn)))]

\* the error a non-nil error value is returned as
AsError(v) == Err("user", v.msg)

RECURSIVE resolveBinding(_, _, _, _, _)
RECURSIVE resolveBindingInstance(_, _, _, _)
RECURSIVE arguments(_, _, _, _, _, _)
RECURSIVE argumentsNext(_, _, _, _, _, _)
RECURSIVE invoke(_, _, _, _)

\* resolver.arguments, from parameter i on; args are the arguments resolved so far
arguments(r, fn, i, args, st, d) ==
    IF i > Len(fn.ins) THEN [err |-> NoErr, args |-> args, st |-> st]
    ELSE argumentsNext(r, fn, i, args, resolveBinding(r, fn.ins[i], DefaultBindName, st, d), d)

\* resolver.arguments: a is what resolveBinding gave for parameter i
argumentsNext(r, fn, i, args, a, d) ==
    IF a.err # NoErr THEN [err |-> a.err, args |-> << >>, st |-> a.st]
    ELSE arguments(r, fn, i + 1, Append(args, a.val), a.st, d)

\* resolver.invoke: c is what the call of fn gave
invokeCalled(fn, c) ==
    IF Len(c.out) > 1 /\ isError(fn.outs[Len(c.out)]) /\ c.out[Len(c.out)] # NilVal
    THEN [err |-> AsError(c.out[Len(c.out)]), out |-> << >>, st |-> c.st]
    ELSE [err |-> NoErr, out |-> c.out, st |-> c.st]

\* invoke that calls the function although an argument did not resolve
invokeWithRegardless(fn, a) ==
    IF a.err # NoErr THEN [err |-> a.err, out |-> << >>, st |-> CallFn(fn, a.st).st]
    ELSE IF \E i \in 1..Len(a.args) : a.args[i] = NilVal
    THEN [err |-> Panic("Call using zero Value argument"), out |-> << >>, st |-> a.st]
    ELSE invokeCalled(fn, CallFn(fn, a.st))

\* resolver.invoke: a is what arguments gave
invokeWith(fn, a) ==
    IF a.err # NoErr THEN [err |-> a.err, out |-> << >>, st |-> a.st]
    ELSE IF \E i \in 1..Len(a.args) : a.args[i] = NilVal
    THEN [err |-> Panic("Call using zero Value argument"), out |-> << >>, st |-> a.st]
    ELSE invokeCalled(fn, CallFn(fn, a.st))

\* resolver.invoke
invoke(r, fn, st, d) ==
    IF fn.kind # "func"
    THEN \* reflect.TypeOf(function).NumIn() of nil or of a non-function
         [err |-> Panic("NumIn of " \o fn.kind), out |-> << >>, st |-> st]
    ELSE invokeWith(fn, arguments(r, fn, 1, << >>, st, d))

\* resolveBindingInstance without lines 83-87: the product's Construct is not called
resolveBindingNoConstruct(o) ==
    IF o.err # NoErr THEN [err |-> o.err, val |-> NilVal, st |-> o.st]
    ELSE [err |-> NoErr, val |-> o.out[1], st |-> o.st]

\* resolver.resolveBindingInstance: o is what invoke of the factory gave;
\* t.Construct() is called directly
resolveBindingConstruct(o) ==
    IF o.err # NoErr THEN [err |-> o.err, val |-> NilVal, st |-> o.st]
    ELSE IF "Constructor" \notin Implements(TypeOf(o.out[1]))
    THEN [err |-> NoErr, val |-> o.out[1], st |-> o.st]
    ELSE [err |-> IF o.out[1].cerr THEN AsError(ErrVal("Construct")) ELSE NoErr,
          val |-> IF o.out[1].cerr THEN NilVal ELSE [o.out[1] EXCEPT !.constructed = TRUE],
          st  |-> Effects(o.st.next, Append(o.st.log, Invoked(ConstructOf(o.out[1]))))]

\* resolver.resolveBindingInstance
resolveBindingInstance(r, bnd, st, d) ==
    IF bnd.instance # NilVal THEN [err |-> NoErr, val |-> bnd.instance, st |-> st]
    ELSE resolveBindingConstruct(invoke(r, bnd.factory, st, d))

\* resolver.resolveBinding: b is what getBinding gave
resolveBindingOf(r, b, st, d) ==
    IF b.err # NoErr THEN [err |-> b.err, val |-> NilVal, st |-> st]
    ELSE resolveBindingInstance(r, b.bnd, st, d - 1)

\* resolveBinding that gives up with an error where the descent would not end
resolveBindingDetects(r, abstraction, name, st, d) ==
    IF d = 0 THEN [err |-> Err("CyclicDependency", abstraction), val |-> NilVal, st |-> st]
    ELSE resolveBindingOf(r, getBinding(r, abstraction, name), st, d)

\* resolver.resolveBinding; d is the stack depth left
resolveBinding(r, abstraction, name, st, d) ==
    IF d = 0 THEN [err |-> StackOverflow, val |-> NilVal, st |-> st]
    ELSE resolveBindingOf(r, getBinding(r, abstraction, name), st, d)

\* ---------------------------------------------------------------- Fill
RECURSIVE fillStruct(_, _, _, _)

\* the annotation of a di tag without its modifier, and whether the tag has
\* the omitempty modifier
TagKind(tag) ==
    CASE tag = "type,omitempty" -> "type"
      [] tag = "name,omitempty" -> "name"
      [] OTHER                  -> tag
TagOmitempty(tag) == tag \in {"type,omitempty", "name,omitempty"}

\* omitempty: the NotFound of a field's own lookup leaves the field at its
\* zero value and does not fail the Fill
omitempty(f, err) == TagOmitempty(f.tag) /\ err = ErrNotFound(f.type)

\* fillStruct that leaves every field it finds no binding for at its zero value
fillStructSetSkipsUnbound(r, v, i, f, a) ==
    IF a.err.code = "NotFound" THEN fillStruct(r, v, i + 1, a.st)
    ELSE IF a.err # NoErr THEN [err |-> a.err, val |-> v, st |-> a.st]
    ELSE IF a.val = NilVal
    THEN [err |-> Panic("Set of zero Value"), val |-> v, st |-> a.st]
    ELSE fillStruct(r, [v EXCEPT !.fld[i] = a.val], i + 1, a.st)

\* resolver.fillStruct: a is what resolveBinding gave for field i, which is f
fillStructSet(r, v, i, f, a) ==
    IF omitempty(f, a.err) THEN fillStruct(r, v, i + 1, a.st)
    ELSE IF a.err # NoErr THEN [err |-> a.err, val |-> v, st |-> a.st]
    ELSE IF a.val = NilVal
    THEN [err |-> Panic("Set of zero Value"), val |-> v, st |-> a.st]
    ELSE fillStruct(r, [v EXCEPT !.fld[i] = a.val], i + 1, a.st)

\* resolver.fillStruct: field i, which is f
fillStructField(r, v, i, f, st) ==
    IF TagKind(f.tag) \notin {"type", "name"}
    THEN [err |-> Err("InvalidFieldTag", f.name), val |-> v, st |-> st]
    ELSE fillStructSet(r, v, i, f,
                       resolveBinding(r, f.type,
                                      IF TagKind(f.tag) = "type" THEN DefaultBindName ELSE f.name,
                                      st, MaxDepth))

\* resolver.fillStruct, from field i on; v is the receiver as filled so far
fillStruct(r, v, i, st) ==
    IF i > Len(StructFields(TypeOf(v))) THEN [err |-> NoErr, val |-> v, st |-> st]
    ELSE fillStructField(r, v, i, StructFields(TypeOf(v))[i], st)

\* the bindings a slice or map Fill ranges over: the containers in order, the
\* names of each map in the order ord that the Go runtime happens to iterate in
Collected(r, abstraction, ord) ==
    LET RECURSIVE of(_, _)
        of(c, k) ==
            IF c > Len(r.containers) THEN << >>
            ELSE IF k > Len(ord) THEN of(c + 1, 1)
            ELSE IF /\ ListBindings(r.containers[c], abstraction).err = NoErr
                    /\ ord[k] \in DOMAIN ListBindings(r.containers[c], abstraction).bnds
            THEN <<[name |-> ord[k],
                    bnd  |-> ListBindings(r.containers[c], abstraction).bnds[ord[k]]]>>
                    \o of(c, k + 1)
            ELSE of(c, k + 1)
    IN  of(1, 1)

RECURSIVE fillSlice(_, _, _, _, _, _)

\* resolver.fillSlice: a is what resolveBindingInstance gave for binding i
fillSliceAppend(r, v, items, i, result, a) ==
    IF a.err # NoErr THEN [err |-> a.err, val |-> v, st |-> a.st]
    ELSE IF a.val = NilVal
    THEN [err |-> Panic("Append of zero Value"), val |-> v, st |-> a.st]
    ELSE fillSlice(r, v, items, i + 1, Append(result, a.val), a.st)

\* resolver.fillSlice, from collected binding i on; result is the slice so far
fillSlice(r, v, items, i, result, st) ==
    IF i > Len(items)
    THEN IF Len(result) = 0
         THEN [err |-> ErrNotFound(ElemType(TypeOf(v))), val |-> v, st |-> st]
         ELSE [err |-> NoErr, val |-> [v EXCEPT !.fld = result], st |-> st]
    ELSE fillSliceAppend(r, v, items, i, result,
                         resolveBindingInstance(r, items[i].bnd, st, MaxDepth))

RECURSIVE fillMap(_, _, _, _, _, _)

\* resolver.fillMap: a is what resolveBindingInstance gave for binding i;
\* SetMapIndex with the zero Value deletes the key
fillMapSet(r, v, items, i, result, a) ==
    IF a.err # NoErr THEN [err |-> a.err, val |-> v, st |-> a.st]
    ELSE IF a.val = NilVal
    THEN fillMap(r, v, items, i + 1,
                 [k \in DOMAIN result \ {items[i].name} |-> result[k]], a.st)
    ELSE fillMap(r, v, items, i + 1, Put(result, items[i].name, a.val), a.st)

\* resolver.fillMap, from collected binding i on; result is the map so far
fillMap(r, v, items, i, result, st) ==
    IF i > Len(items)
    THEN IF DOMAIN result = {}
         THEN [err |-> ErrNotFound(ElemType(TypeOf(v))), val |-> v, st |-> st]
         ELSE [err |-> NoErr, val |-> [v EXCEPT !.fld = result], st |-> st]
    ELSE fillMapSet(r, v, items, i, result,
                    resolveBindingInstance(r, items[i].bnd, st, MaxDepth))

\* resolver.Fill (both of its messages for a bad receiver are InvalidReceiver)
Fill(r, receiver, ord, st) ==
    CASE receiver = NilVal -> [err |-> Err("InvalidReceiver", "nil"), val |-> receiver, st |-> st]
      [] receiver # NilVal /\ ElemKind(TypeOf(receiver)) = "" ->
            [err |-> Err("InvalidReceiver", "not a pointer"), val |-> receiver, st |-> st]
      [] ElemKind(TypeOf(receiver)) = "struct" -> fillStruct(r, receiver, 1, st)
      [] ElemKind(TypeOf(receiver)) = "slice" ->
            fillSlice(r, receiver, Collected(r, ElemType(TypeOf(receiver)), ord), 1, << >>, st)
      [] ElemKind(TypeOf(receiver)) = "map" /\ KeyType(TypeOf(receiver)) = "string" ->
            fillMap(r, receiver, Collected(r, ElemType(TypeOf(receiver)), ord), 1, EmptyMap, st)
      [] OTHER -> [err |-> Err("InvalidReceiver", TypeOf(receiver)), val |-> receiver, st |-> st]

\* ---------------------------------------------------------------- container
\* bindOptions
BindOptions(factory, fill, names) == [factory |-> factory, fill |-> fill, names |-> names]

\* container.getResolver
getResolver(cnt) == Resolver(<<cnt>>, << >>)

\* bind: the number of returned values that are not the trailing error
numRealInstances(constructor) ==
    IF isError(constructor.outs[Len(constructor.outs)])
    THEN Len(constructor.outs) - 1
    ELSE Len(constructor.outs)

\* bind: the loop over the instances a singleton constructor returned, from
\* instance i on: Fill when asked for, then Construct where it is implemented.
\* (The instances of the suite are structs: no map iteration order is read.)
RECURSIVE construct(_, _, _, _, _)

\* bind: h is what invoke of instance i's Construct gave, f.val the instance
constructHooked(cnt, opts, instances, i, f, h) ==
    IF h.err # NoErr THEN [err |-> h.err, instances |-> instances, st |-> h.st]
    ELSE construct(cnt, opts, [instances EXCEPT ![i] = [f.val EXCEPT !.constructed = TRUE]],
                   i + 1, h.st)

\* bind: f is what Fill gave for instance i (the instance itself without WithFill)
constructFilled(cnt, opts, instances, i, f) ==
    IF f.err # NoErr THEN [err |-> f.err, instances |-> instances, st |-> f.st]
    ELSE IF "Constructor" \in Implements(TypeOf(f.val))
    THEN constructHooked(cnt, opts, instances, i, f,
                         invoke(getResolver(cnt), ConstructOf(f.val), f.st, MaxDepth))
    ELSE construct(cnt, opts, [instances EXCEPT ![i] = f.val], i + 1, f.st)

construct(cnt, opts, instances, i, st) ==
    IF i > Len(instances) THEN [err |-> NoErr, instances |-> instances, st |-> st]
    ELSE constructFilled(cnt, opts, instances, i,
                         IF opts.fill
                         THEN Fill(getResolver(cnt), instances[i], << >>, st)
                         ELSE [err |-> NoErr, val |-> instances[i], st |-> st])

\* bind that stores every value of a multi-value constructor under the first name
bindNamesFirst(opts, n, i) ==
    IF opts.names = << >> THEN {DefaultBindName}
    ELSE IF opts.factory \/ n > 1 THEN {opts.names[1]}
    ELSE {opts.names[k] : k \in 1..Len(opts.names)}

\* bind: the names a binding of output i is stored under
bindNames(opts, n, i) ==
    LET names == IF opts.names = << >> THEN <<DefaultBindName>> ELSE opts.names
    IN  IF opts.factory THEN {names[1]}
        ELSE IF n > 1 THEN {IF Len(names) > 1 THEN names[i] ELSE names[1]}
        ELSE {names[k] : k \in 1..Len(names)}

\* the loop of bind that stores nothing under a name that is bound already
RECURSIVE storeFirstWins(_, _, _, _, _, _)
storeFirstWins(bnds, constructor, opts, instances, n, i) ==
    IF i > n THEN bnds
    ELSE LET abstraction == constructor.outs[i]
             old == IF abstraction \in DOMAIN bnds THEN bnds[abstraction] ELSE EmptyMap
             bnd == IF opts.factory THEN Binding(constructor, NilVal, opts.fill)
                    ELSE Binding(NilFn, instances[i], opts.fill)
             new == [name \in DOMAIN old \cup bindNames(opts, n, i) |->
                       IF name \in DOMAIN old THEN old[name] ELSE bnd]
         IN  storeFirstWins(Put(bnds, abstraction, new), constructor, opts, instances, n, i + 1)

\* bind: the loop that stores the bindings, from output i on
RECURSIVE store(_, _, _, _, _, _)
store(bnds, constructor, opts, instances, n, i) ==
    IF i > n THEN bnds
    ELSE LET abstraction == constructor.outs[i]
             old == IF abstraction \in DOMAIN bnds THEN bnds[abstraction] ELSE EmptyMap
             bnd == IF opts.factory THEN Binding(constructor, NilVal, opts.fill)
                    ELSE Binding(NilFn, instances[i], opts.fill)
             new == [name \in DOMAIN old \cup bindNames(opts, n, i) |->
                       IF name \in bindNames(opts, n, i) THEN bnd ELSE old[name]]
         IN  store(Put(bnds, abstraction, new), constructor, opts, instances, n, i + 1)

\* what bind returns when it fails: the bindings of cnt are as they were
bindFailed(cnt, err, st) ==
    [err |-> err, bnds |-> bindings[cnt], instances |-> << >>, st |-> st]

\* bind: c is what the loop over the instances gave; the bindings are stored
bindConstructed(cnt, constructor, opts, c) ==
    IF c.err # NoErr THEN bindFailed(cnt, c.err, c.st)
    ELSE [err |-> NoErr,
          bnds |-> store(bindings[cnt], constructor, opts, c.instances,
                         numRealInstances(constructor), 1),
          instances |-> c.instances, st |-> c.st]

\* bind: o is what invoke of the singleton constructor gave
bindInvoked(cnt, constructor, opts, o) ==
    IF o.err # NoErr THEN bindFailed(cnt, o.err, o.st)
    ELSE bindConstructed(cnt, constructor, opts,
                         construct(cnt, opts, SubSeq(o.out, 1, numRealInstances(constructor)),
                                   1, o.st))

\* bind without the check of the number of names (lines 85-87)
bindAnyNameCount(cnt, constructor, opts) ==
    IF constructor.kind # "func"
    THEN bindFailed(cnt, Err("InvalidConstructor", ""), Effects(next, << >>))
    ELSE IF Len(constructor.outs) = 0
            \/ (Len(constructor.outs) = 1 /\ isError(constructor.outs[1]))
    THEN bindFailed(cnt, Err("NoUsefulReturn", ""), Effects(next, << >>))
    ELSE IF ~opts.factory
    THEN bindInvoked(cnt, constructor, opts,
                     invoke(getResolver(cnt), constructor, Effects(next, << >>), MaxDepth))
    ELSE IF (Len(constructor.outs) = 2 /\ ~isError(constructor.outs[2]))
            \/ Len(constructor.outs) > 2
    THEN bindFailed(cnt, Err("FactoryArity", ""), Effects(next, << >>))
    ELSE [err |-> NoErr,
          bnds |-> store(bindings[cnt], constructor, opts, << >>,
                         numRealInstances(constructor), 1),
          instances |-> << >>, st |-> Effects(next, << >>)]

\* container.bind: the error, the bindings of cnt afterwards, the instances a
\* singleton constructor produced, what was invoked
bind(cnt, constructor, opts) ==
    IF constructor.kind # "func"
    THEN bindFailed(cnt, Err("InvalidConstructor", ""), Effects(next, << >>))
    ELSE IF Len(constructor.outs) = 0
            \/ (Len(constructor.outs) = 1 /\ isError(constructor.outs[1]))
    THEN bindFailed(cnt, Err("NoUsefulReturn", ""), Effects(next, << >>))
    ELSE IF ~opts.factory
    THEN IF /\ numRealInstances(constructor) > 1
            /\ Len(opts.names) > 1
            /\ numRealInstances(constructor) # Len(opts.names)
         THEN bindFailed(cnt, Err("NameCountMismatch", ""), Effects(next, << >>))
         ELSE bindInvoked(cnt, constructor, opts,
                          invoke(getResolver(cnt), constructor, Effects(next, << >>), MaxDepth))
    ELSE IF (Len(constructor.outs) = 2 /\ ~isError(constructor.outs[2]))
            \/ Len(constructor.outs) > 2
    THEN bindFailed(cnt, Err("FactoryArity", ""), Effects(next, << >>))
    ELSE [err |-> NoErr,
          bnds |-> store(bindings[cnt], constructor, opts, << >>,
                         numRealInstances(constructor), 1),
          instances |-> << >>, st |-> Effects(next, << >>)]

\* Implementation that also binds the implementation to every interface it satisfies
implementAssignable(cnt, implementation, names) ==
    [abstraction \in DOMAIN bindings[cnt] \cup {TypeOf(implementation)}
                     \cup Implements(TypeOf(implementation)) |->
        IF AssignableTo(TypeOf(implementation), abstraction)
        THEN Put(IF abstraction \in DOMAIN bindings[cnt] THEN bindings[cnt][abstraction]
                 ELSE EmptyMap,
                 IF Len(names) = 0 THEN DefaultBindName ELSE names[1],
                 Binding(NilFn, implementation, FALSE))
        ELSE bindings[cnt][abstraction]]

\* container.Implementation: the bindings of cnt afterwards
implement(cnt, implementation, names) ==
    LET ref  == TypeOf(implementation)
        old  == IF ref \in DOMAIN bindings[cnt] THEN bindings[cnt][ref] ELSE EmptyMap
        opts == IF Len(names) = 0 THEN <<DefaultBindName>> ELSE names
    IN  Put(bindings[cnt], ref, Put(old, opts[1], Binding(NilFn, implementation, FALSE)))

\* Reset that empties the map of names of every type and keeps the types
resetNames(cnt) == [abstraction \in DOMAIN bindings[cnt] |-> EmptyMap]

\* container.Reset: the bindings of cnt afterwards
reset(cnt) == EmptyMap

\* ---------------------------------------------------------------- resolver entry points
\* a pointer passed to WithReturn: the type it points to and what it holds
Target(elem, val) == [elem |-> elem, val |-> val]

\* the loop over the return targets that sets every target the output is
\* assignable to
RECURSIVE assignAssignable(_, _, _, _, _)
assignAssignable(function, out, returns, i, st) ==
    IF i > Len(returns) THEN [err |-> NoErr, rets |-> returns, st |-> st]
    ELSE IF ~AssignableTo(function.outs[i], returns[i].elem)
    THEN [err |-> Err("ReturnTypeMismatch", function.outs[i]), rets |-> returns, st |-> st]
    ELSE assignAssignable(function, out, [returns EXCEPT ![i].val = out[i]], i + 1, st)

\* resolver.Call: the loop over the return targets, from target i on
RECURSIVE assign(_, _, _, _, _)
assign(function, out, returns, i, st) ==
    IF i > Len(returns) THEN [err |-> NoErr, rets |-> returns, st |-> st]
    ELSE IF function.outs[i] # returns[i].elem
    THEN [err |-> Err("ReturnTypeMismatch", function.outs[i]), rets |-> returns, st |-> st]
    ELSE assign(function, out, [returns EXCEPT ![i].val = out[i]], i + 1, st)

\* resolver.Call: whether the function's last output is an error
returnsAnError(function) ==
    Len(function.outs) > 0 /\ isError(function.outs[Len(function.outs)])

\* resolver.Call: c is what the call of the function gave
CallCalled(function, returns, c) ==
    IF returnsAnError(function) /\ c.out[Len(c.out)] # NilVal
    THEN [err |-> AsError(c.out[Len(c.out)]), rets |-> returns, st |-> c.st]
    ELSE assign(function, c.out, returns, 1, c.st)

\* resolver.Call: a is what arguments gave
CallWith(function, returns, a) ==
    IF a.err # NoErr THEN [err |-> a.err, rets |-> returns, st |-> a.st]
    ELSE IF \E i \in 1..Len(a.args) : a.args[i] = NilVal
    THEN [err |-> Panic("Call using zero Value argument"), rets |-> returns, st |-> a.st]
    ELSE CallCalled(function, returns, CallFn(function, a.st))

\* resolver.Call
Call(r, function, returns, st) ==
    IF function.kind # "func"
    THEN [err |-> Err("InvalidFunction", ""), rets |-> returns, st |-> st]
    ELSE IF /\ returns # << >>
            /\ Len(function.outs) - (IF returnsAnError(function) THEN 1 ELSE 0) # Len(returns)
    THEN [err |-> Err("ReturnCountMismatch", ""), rets |-> returns, st |-> st]
    ELSE CallWith(function, returns, arguments(r, function, 1, << >>, st, MaxDepth))

\* resolver.Resolve: a is what resolveBinding gave; val is what the variable
\* pointed to holds afterwards
ResolveSet(a) ==
    IF a.err # NoErr THEN [err |-> a.err, val |-> NilVal, st |-> a.st]
    ELSE IF a.val = NilVal
    THEN [err |-> Panic("Set of zero Value"), val |-> NilVal, st |-> a.st]
    ELSE [err |-> NoErr, val |-> a.val, st |-> a.st]

\* resolver.Resolve; receiver is the type pointed to, "" when it is no pointer
Resolve(r, receiver, name, st) ==
    IF receiver = "" THEN [err |-> Err("InvalidReceiver", ""), val |-> NilVal, st |-> st]
    ELSE ResolveSet(resolveBinding(r, receiver, name, st, MaxDepth))

\* ---------------------------------------------------------------- inputs
Types == {"Shape", "Database", "*Circle", "error"}
Names == {DefaultBindName, "kek", "bek"}

\* the constructor of that name
Ctor(name) == CHOOSE fn \in Constructors : fn.name = name

\* a Singleton or Factory call: the constructor, the WithName names, WithFill
BindCall(name, names, fill) == [constructor |-> Ctor(name), names |-> names, fill |-> fill]

SingletonCalls ==
    { BindCall("newCircle", names, FALSE) : names \in {<< >>, <<"kek">>, <<"kek", "bek">>} }
      \cup { BindCall("multi", names, FALSE) :
               names \in {<< >>, <<"kek">>, <<"kek", "bek">>, <<"kek", "bek", "dek">>} }
      \cup { BindCall(name, << >>, FALSE) :
               name \in {"STRING!", "func()", "func() error", "pair", "bindError", "withShape",
                         "newMongoDB", "newMongoDBErr", "context.Background"} }
      \cup { BindCall("nilShape", <<"kek">>, FALSE), BindCall("newMongoDB", << >>, TRUE) }

FactoryCalls ==
    { BindCall(name, << >>, FALSE) :
        name \in {"STRING!", "func() error", "multi", "newCircle", "bindError", "withShape",
                  "newMongoDB", "newMongoDBErr"} }
      \cup { BindCall("newCircle", <<"kek", "bek">>, FALSE) }

\* the second container of a chain is bound to less
CallsOn(cnt, calls) ==
    IF cnt = "c1" THEN calls
    ELSE { c \in calls : c.constructor.name = "newCircle" /\ c.names = << >> }

ImplementationNames == {<< >>, <<"kek", "bek">>}

\* the order in which the Go runtime iterates over a map of names
Orders == {<<DefaultBindName, "kek", "bek">>, <<"bek", "kek", DefaultBindName>>}

\* values the caller makes itself: they are allocated outside every call modelled
Outside(cls) == NewVal(cls, FALSE, 0)

UserFuncs ==
    { Fn("STRING!", "string", << >>, << >>, << >>),
      Fn("func(Shape)", "func", <<"Shape">>, << >>, << >>),
      Fn("func(Shape, Database)", "func", <<"Shape", "Database">>, << >>, << >>),
      Fn("func(*Circle)", "func", <<"*Circle">>, << >>, << >>),
      Fn("func(Shape) error", "func", <<"Shape">>, <<"error">>, <<ErrTpl>>) }

FillReceivers ==
    { Outside(t) : t \in {"*struct{S;D}", "*struct{kek}", "*[]Shape", "*int"} } \cup {NilVal}

\* ---------------------------------------------------------------- actions
NoCall ==
    [op |-> "", cnt |-> "", at |-> 0, r |-> Resolver(<< >>, << >>), fn |-> NilFn,
     opts |-> BindOptions(FALSE, FALSE, << >>), abstraction |-> "", name |-> "",
     receiver |-> NilVal, err |-> NoErr, val |-> NilVal, rets |-> << >>, log |-> << >>]

Init ==
    /\ bindings = [cnt \in Containers |-> EmptyMap]
    /\ next = 0
    /\ nbinds = [cnt \in Containers |-> 0]
    /\ last = NoCall
    /\ resolvers = <<NewResolver(<<"c1">>), NewResolver(<<"c1", "c2">>),
                     WithOf(NewResolver(<<"c1">>), <<Outside("*Circle")>>)>>
    /\ NoGoroutines

\* the sum of a function of numbers
RECURSIVE Sum(_)
Sum(f) ==
    IF DOMAIN f = {} THEN 0
    ELSE LET x == CHOOSE x \in DOMAIN f : TRUE
         IN  f[x] + Sum([y \in DOMAIN f \ {x} |-> f[y]])

\* a call that binds: the budget of successful binds, and the state afterwards
Bound(cnt, err, bnds, st) ==
    /\ st.next <= MaxAlloc
    /\ err = NoErr => Sum(nbinds) < MaxBinds
    /\ bindings' = IF err = NoErr THEN [bindings EXCEPT ![cnt] = bnds] ELSE bindings
    /\ nbinds' = IF err = NoErr THEN [nbinds EXCEPT ![cnt] = @ + 1] ELSE nbinds
    /\ next' = st.next
    /\ UNCHANGED <<resolvers, locks, stacks>>

\* a call that keeps what the factories it invoked made: their bindings become
\* instance bindings
ReadCaching(st) ==
    /\ st.next <= MaxAlloc
    /\ next' = st.next
    /\ bindings' = [cnt \in Containers |->
                      [t \in DOMAIN bindings[cnt] |->
                         [name \in DOMAIN bindings[cnt][t] |->
                            IF /\ bindings[cnt][t][name].factory # NilFn
                               /\ \E k \in DOMAIN st.log :
                                     st.log[k] = Invoked(bindings[cnt][t][name].factory)
                            THEN Binding(NilFn,
                                         NewVal(bindings[cnt][t][name].factory.rets[1].cls,
                                                FALSE, st.next),
                                         bindings[cnt][t][name].fill)
                            ELSE bindings[cnt][t][name]]]]
    /\ UNCHANGED <<nbinds, resolvers, locks, stacks>>

\* a call that binds nothing
Read(st) ==
    /\ st.next <= MaxAlloc
    /\ next' = st.next
    /\ UNCHANGED <<bindings, nbinds, resolvers, locks, stacks>>

\* Singleton and Factory: b is what bind returned
Returned(op, cnt, constructor, opts, b) ==
    /\ Bound(cnt, b.err, b.bnds, b.st)
    /\ last' = [NoCall EXCEPT !.op = op, !.cnt = cnt, !.fn = constructor, !.opts = opts,
                              !.err = b.err, !.rets = b.instances, !.log = b.st.log]

Singleton(cnt, constructor, names, fill) ==
    Returned("Singleton", cnt, constructor, BindOptions(FALSE, fill, names),
             bind(cnt, constructor, BindOptions(FALSE, fill, names)))

Factory(cnt, constructor, names, fill) ==
    Returned("Factory", cnt, constructor, BindOptions(TRUE, fill, names),
             bind(cnt, constructor, BindOptions(TRUE, fill, names)))

\* the caller allocates the implementation it passes
Implementation(cnt, cls, names) ==
    /\ Bound(cnt, NoErr, implement(cnt, NewVal(cls, FALSE, next + 1), names),
             Effects(next + 1, << >>))
    /\ last' = [NoCall EXCEPT !.op = "Implementation", !.cnt = cnt,
                              !.opts = BindOptions(FALSE, FALSE, names),
                              !.val = NewVal(cls, FALSE, next + 1)]

Reset(cnt) ==
    /\ bindings' = [bindings EXCEPT ![cnt] = reset(cnt)]
    /\ UNCHANGED <<next, nbinds, resolvers, locks, stacks>>
    /\ last' = [NoCall EXCEPT !.op = "Reset", !.cnt = cnt]

\* Resolve and Fill through a resolver: a is what the call returned
Answered(a, call) ==
    /\ Read(a.st)
    /\ last' = [call EXCEPT !.err = a.err, !.val = a.val, !.log = a.st.log]

\* Call through a resolver: a is what the call returned
Called(a, call) ==
    /\ Read(a.st)
    /\ last' = [call EXCEPT !.err = a.err, !.rets = a.rets, !.log = a.st.log]

DoResolve(r, receiver, name) ==
    Answered(Resolve(r, receiver, name, Effects(next, << >>)),
             [NoCall EXCEPT !.op = "Resolve", !.r = r, !.abstraction = receiver,
                            !.name = name])

DoCall(r, function, returns) ==
    Called(Call(r, function, returns, Effects(next, << >>)),
           [NoCall EXCEPT !.op = "Call", !.r = r, !.fn = function])

DoFill(r, receiver, ord) ==
    Answered(Fill(r, receiver, ord, Effects(next, << >>)),
             [NoCall EXCEPT !.op = "Fill", !.r = r, !.receiver = receiver])

Next ==
    \/ \E cnt \in Containers : \E c \in CallsOn(cnt, SingletonCalls) :
          Singleton(cnt, c.constructor, c.names, c.fill)
    \/ \E cnt \in Containers : \E c \in CallsOn(cnt, FactoryCalls) :
          Factory(cnt, c.constructor, c.names, c.fill)
    \/ \E cnt \in Containers, names \in ImplementationNames :
          Implementation(cnt, "*Circle", names)
    \/ \E cnt \in Containers : Reset(cnt)
    \/ \E i \in DOMAIN resolvers, receiver \in Types \cup {""}, name \in Names :
          DoResolve(resolvers[i], receiver, name)
    \/ \E i \in DOMAIN resolvers, function \in UserFuncs : DoCall(resolvers[i], function, << >>)
    \/ \E i \in DOMAIN resolvers, receiver \in FillReceivers, ord \in Orders :
          DoFill(resolvers[i], receiver, ord)

Spec == Init /\ [][Next]_vars

\* ---------------------------------------------------------------- With
\* a second value the caller makes itself
OutsideNo(cls, k) == NewVal(cls, FALSE, 0 - k)

\* the implementations handed to With
WithLists ==
    { <<Outside("*MySQL")>>,
      <<Outside("*MySQL"), Outside("*Circle"), OutsideNo("*Circle", 1)>> }

WithSingletonCalls ==
    { BindCall("newCircle", << >>, FALSE), BindCall("newCircle", <<"kek">>, FALSE) }

WithFactoryCalls ==
    { BindCall(name, << >>, FALSE) : name \in {"newCircle", "newMongoDB", "withShape"} }

WithFuncs ==
    { Fn("func(Shape)", "func", <<"Shape">>, << >>, << >>),
      Fn("func(Shape, Database)", "func", <<"Shape", "Database">>, << >>, << >>) }

\* r.With(implementations...) on the i-th resolver made
DoWith(i, implementations) ==
    /\ Len(resolvers) < MaxResolvers
    /\ resolvers' = With(resolvers, i, implementations)
    /\ UNCHANGED <<bindings, next, nbinds, locks, stacks>>
    /\ last' = [NoCall EXCEPT !.op = "With", !.at = i, !.r = resolvers[i],
                              !.rets = implementations]

InitWith ==
    /\ bindings = [cnt \in Containers |-> EmptyMap]
    /\ next = 0
    /\ nbinds = [cnt \in Containers |-> 0]
    /\ last = NoCall
    /\ resolvers = <<NewResolver(<<"c1", "c2">>)>>
    /\ NoGoroutines

NextWith ==
    \/ \E cnt \in Containers : \E c \in CallsOn(cnt, WithSingletonCalls) :
          Singleton(cnt, c.constructor, c.names, c.fill)
    \/ \E cnt \in Containers : \E c \in CallsOn(cnt, WithFactoryCalls) :
          Factory(cnt, c.constructor, c.names, c.fill)
    \/ \E i \in DOMAIN resolvers, implementations \in WithLists : DoWith(i, implementations)
    \/ \E i \in DOMAIN resolvers, receiver \in {"Shape", "Database", "*Circle"},
           name \in {DefaultBindName, "kek"} :
          DoResolve(resolvers[i], receiver, name)
    \/ \E i \in DOMAIN resolvers, function \in WithFuncs : DoCall(resolvers[i], function, << >>)
    \/ \E i \in DOMAIN resolvers :
          DoFill(resolvers[i], Outside("*struct{S;D}"), <<DefaultBindName, "kek", "bek">>)

SpecWith == InitWith /\ [][NextWith]_vars

\* ---------------------------------------------------------------- Fill
FillSingletonCalls ==
    { BindCall("newCircle", << >>, FALSE), BindCall("newCircle", <<"kek", "bek">>, FALSE),
      BindCall("multi", << >>, FALSE), BindCall("nilShape", <<"kek">>, FALSE) }

FillFactoryCalls ==
    { BindCall(name, << >>, FALSE) :
        name \in {"newCircle", "newMongoDB", "newMongoDBErr", "bindError"} }
      \cup { BindCall("newCircle", <<"kek", "bek">>, FALSE) }

FillAllReceivers ==
    { Outside(t) : t \in {"*struct{S;D}", "*struct{S omitempty;D}", "*[]Shape", "*[]Database",
                          "*map[string]Shape", "*map[int]Shape"} }

NextFill ==
    \/ \E cnt \in Containers : \E c \in CallsOn(cnt, FillSingletonCalls) :
          Singleton(cnt, c.constructor, c.names, c.fill)
    \/ \E cnt \in Containers : \E c \in CallsOn(cnt, FillFactoryCalls) :
          Factory(cnt, c.constructor, c.names, c.fill)
    \/ \E i \in DOMAIN resolvers, receiver \in FillAllReceivers, ord \in Orders :
          DoFill(resolvers[i], receiver, ord)

SpecFill == Init /\ [][NextFill]_vars

\* ---------------------------------------------------------------- Call with WithReturn
CallSingletonCalls ==
    { BindCall("newCircle", << >>, FALSE), BindCall("newCircle", <<"kek">>, FALSE) }

CallFactoryCalls == { BindCall("newCircle", << >>, FALSE) }

\* functions that return values
ReturnFuncs ==
    { Fn("func(Shape) (string, Database, error)", "func", <<"Shape">>,
         <<"string", "Database", "error">>,
         <<Tpl("string", FALSE), Tpl("*MySQL", FALSE), NilTpl>>),
      Fn("func(Shape) (string, Database)", "func", <<"Shape">>, <<"string", "Database">>,
         <<Tpl("string", FALSE), Tpl("*MySQL", FALSE)>>),
      Fn("func(Shape) (string, error)", "func", <<"Shape">>, <<"string", "error">>,
         <<Tpl("string", FALSE), ErrTpl>>),
      Fn("func(Shape) *Circle", "func", <<"Shape">>, <<"*Circle">>, <<Tpl("*Circle", FALSE)>>) }

\* the pointers handed to WithReturn: variables that hold their zero value
ReturnTargets ==
    { << >>,
      <<Target("string", NilVal)>>,
      <<Target("string", NilVal), Target("Database", NilVal)>>,
      <<Target("string", NilVal), Target("string", NilVal)>>,
      <<Target("Database", NilVal), Target("Database", NilVal)>>,
      <<Target("Shape", NilVal)>>,
      <<Target("*Circle", NilVal)>> }

NextCall ==
    \/ \E cnt \in Containers : \E c \in CallsOn(cnt, CallSingletonCalls) :
          Singleton(cnt, c.constructor, c.names, c.fill)
    \/ \E cnt \in Containers : \E c \in CallsOn(cnt, CallFactoryCalls) :
          Factory(cnt, c.constructor, c.names, c.fill)
    \/ \E i \in DOMAIN resolvers, function \in ReturnFuncs, returns \in ReturnTargets :
          DoCall(resolvers[i], function, returns)

SpecCall == Init /\ [][NextCall]_vars

\* ---------------------------------------------------------------- WithFill and Construct
\* The README: "context.Context must be provided in container before
\* Constructor method can be called".  c1 starts with the binding that
\* c1.Singleton(context.Background) leaves: context.Background() returns the
\* one background context of the process, which is no new value.
InitHook ==
    /\ bindings = [cnt \in Containers |->
                     IF cnt = "c1"
                     THEN Put(EmptyMap, "context.Context",
                              Put(EmptyMap, DefaultBindName,
                                  Binding(NilFn, Outside("backgroundCtx"), FALSE)))
                     ELSE EmptyMap]
    /\ next = 0
    /\ nbinds = [cnt \in Containers |-> 0]
    /\ last = NoCall
    /\ resolvers = <<NewResolver(<<"c1">>), NewResolver(<<"c1", "c2">>)>>
    /\ NoGoroutines

HookSingletonCalls ==
    { BindCall("newCircle", << >>, FALSE),
      BindCall("newMongoDB", << >>, FALSE), BindCall("newMongoDB", << >>, TRUE),
      BindCall("newMongoDBErr", << >>, FALSE) }

HookFactoryCalls ==
    { BindCall("newCircle", << >>, FALSE),
      BindCall("newMongoDB", << >>, FALSE), BindCall("newMongoDB", << >>, TRUE) }

NextHook ==
    \/ \E cnt \in Containers : \E c \in CallsOn(cnt, HookSingletonCalls) :
          Singleton(cnt, c.constructor, c.names, c.fill)
    \/ \E cnt \in Containers : \E c \in CallsOn(cnt, HookFactoryCalls) :
          Factory(cnt, c.constructor, c.names, c.fill)
    \/ Reset("c1")
    \/ \E i \in DOMAIN resolvers, receiver \in {"Shape", "Database"} :
          DoResolve(resolvers[i], receiver, DefaultBindName)
    \/ \E i \in DOMAIN resolvers :
          DoFill(resolvers[i], Outside("*[]Database"), <<DefaultBindName, "kek", "bek">>)

SpecHook == InitHook /\ [][NextHook]_vars

\* ---------------------------------------------------------------- constructors that need bindings
CycleSingletonCalls ==
    { BindCall(name, << >>, FALSE) : name \in {"newCircle", "withShape"} }

\* a function whose first parameter is made by a factory that needs a binding
NestedFuncs ==
    { Fn("func(Database, Shape)", "func", <<"Database", "Shape">>, << >>, << >>) }

CycleFactoryCalls ==
    { BindCall(name, << >>, FALSE) :
        name \in {"newCircle", "withShape", "shapeOfShape", "shapeOfDatabase", "bindError"} }

NextCycle ==
    \/ \E c \in CycleSingletonCalls : Singleton("c1", c.constructor, c.names, c.fill)
    \/ \E cnt \in Containers : \E c \in CallsOn(cnt, CycleFactoryCalls) :
          Factory(cnt, c.constructor, c.names, c.fill)
    \/ \E i \in DOMAIN resolvers, receiver \in {"Shape", "Database"} :
          DoResolve(resolvers[i], receiver, DefaultBindName)
    \/ \E i \in DOMAIN resolvers, function \in UserFuncs \cup NestedFuncs :
          DoCall(resolvers[i], function, << >>)
    \/ \E i \in DOMAIN resolvers :
          DoFill(resolvers[i], Outside("*struct{S;D}"), <<DefaultBindName, "kek", "bek">>)

SpecCycle == Init /\ [][NextCycle]_vars

\* ---------------------------------------------------------------- goroutines and locks
\* A call is followed at the grain of its lock operations: what a goroutine
\* still has to do in a call is a list of steps.  RLock / RUnlock and Lock /
\* Wait / Unlock are the calls on container.lock (Lock: the writer mutex is
\* taken; Wait: the readers have left and Lock returns), Read and Write are
\* the accesses to container.bindings, Index is the access to the map of one
\* type that ListBindings has returned, User is user code running (a
\* constructor, a factory, a Construct hook).  held is the map an Index step
\* reads when it is no longer the one the container holds for the type.
Step(k) == [k |-> k, t |-> "", fn |-> NilFn, n |-> 0, held |-> << >>]
ReadStep(t) == [Step("Read") EXCEPT !.t = t]
IndexStep(t) == [Step("Index") EXCEPT !.t = t]
UserStep(fn) == [Step("User") EXCEPT !.fn = fn]

\* getResolver that keeps the read lock
getResolverStepsHeld == << Step("RLock") >>

\* container.getResolver: the read lock is taken and released on return
getResolverSteps == << Step("RLock"), Step("RUnlock") >>

\* container.ListBindings of the type t
ListBindingsSteps(t) == << Step("RLock"), ReadStep(t), Step("RUnlock") >>

\* resolver.getBinding of (t, default): the map ListBindings returned is
\* indexed by the name after ListBindings has returned
getBindingSteps(t) == ListBindingsSteps(t) \o << IndexStep(t) >>

\* resolver.arguments: one resolveBinding per parameter, from parameter i on
RECURSIVE argumentsSteps(_, _)
argumentsSteps(fn, i) ==
    IF i > Len(fn.ins) THEN << >>
    ELSE getBindingSteps(fn.ins[i]) \o argumentsSteps(fn, i + 1)

\* resolver.invoke: the arguments are resolved, then the function runs
invokeSteps(fn) ==
    IF fn.kind # "func" THEN << >> ELSE argumentsSteps(fn, 1) \o << UserStep(fn) >>

\* resolver.fillStruct: one resolveBinding per di-tagged field, from field i on
RECURSIVE fillStructSteps(_, _)
fillStructSteps(cls, i) ==
    IF i > Len(StructFields(cls)) THEN << >>
    ELSE getBindingSteps(StructFields(cls)[i].type) \o fillStructSteps(cls, i + 1)

\* resolver.resolveBindingInstance of a factory binding: the factory is
\* invoked and the Construct of its product is called
resolveFactorySteps(factory) ==
    invokeSteps(factory)
        \o IF /\ factory.kind = "func"
              /\ Len(factory.rets) > 0
              /\ "Constructor" \in Implements(factory.rets[1].cls)
           THEN << UserStep(ConstructOf(NewVal(factory.rets[1].cls, factory.rets[1].cerr, 0))) >>
           ELSE << >>

\* bind: the loop over the instances of a singleton constructor, from instance
\* i on: Fill when asked for, then Construct where it is implemented
RECURSIVE constructSteps(_, _, _)
constructSteps(constructor, opts, i) ==
    IF i > numRealInstances(constructor) THEN << >>
    ELSE (IF opts.fill
          THEN getResolverSteps \o fillStructSteps(constructor.rets[i].cls, 1)
          ELSE << >>)
         \o (IF "Constructor" \in Implements(constructor.rets[i].cls)
             THEN getResolverSteps
                  \o invokeSteps(ConstructOf(NewVal(constructor.rets[i].cls,
                                                    constructor.rets[i].cerr, 0)))
             ELSE << >>)
         \o constructSteps(constructor, opts, i + 1)

\* bind, Implementation and Reset: the bindings are written with the lock held
storeSteps == << Step("Lock"), Step("Wait"), Step("Write"), Step("Unlock") >>

\* container.bind
bindSteps(constructor, opts) ==
    IF constructor.kind # "func" THEN << >>
    ELSE IF Len(constructor.outs) = 0
            \/ (Len(constructor.outs) = 1 /\ isError(constructor.outs[1]))
    THEN << >>
    ELSE IF ~opts.factory
    THEN IF /\ numRealInstances(constructor) > 1
            /\ Len(opts.names) > 1
            /\ numRealInstances(constructor) # Len(opts.names)
         THEN << >>
         ELSE getResolverSteps \o invokeSteps(constructor)
                  \o constructSteps(constructor, opts, 1) \o storeSteps
    ELSE IF (Len(constructor.outs) = 2 /\ ~isError(constructor.outs[2]))
            \/ Len(constructor.outs) > 2
    THEN << >>
    ELSE storeSteps

\* Implementation that writes the bindings with the read lock held
ImplementationStepsShared == << Step("RLock"), Step("Write"), Step("RUnlock") >>

\* container.Implementation
ImplementationSteps == storeSteps

\* container.Reset
ResetSteps == storeSteps

\* resolver.Resolve of a receiver of the type t
ResolveSteps(t) == getBindingSteps(t)

\* resolver.Call: the arguments are resolved, then the function runs
CallSteps(function) ==
    IF function.kind # "func" THEN << >>
    ELSE argumentsSteps(function, 1) \o << UserStep(function) >>

\* a call a goroutine is in: what was called with what, and the steps left
Frame(op, fn, opts, val, todo) ==
    [op |-> op, cnt |-> "c1", fn |-> fn, opts |-> opts, val |-> val, todo |-> todo]

SingletonFrame(name, fill) ==
    Frame("Singleton", Ctor(name), BindOptions(FALSE, fill, << >>), NilVal,
          bindSteps(Ctor(name), BindOptions(FALSE, fill, << >>)))
FactoryFrame(name) ==
    Frame("Factory", Ctor(name), BindOptions(TRUE, FALSE, << >>), NilVal,
          bindSteps(Ctor(name), BindOptions(TRUE, FALSE, << >>)))
ImplementationFrame(cls) ==
    Frame("Implementation", NilFn, BindOptions(FALSE, FALSE, << >>), Outside(cls),
          ImplementationSteps)
ResetFrame == Frame("Reset", NilFn, BindOptions(FALSE, FALSE, << >>), NilVal, ResetSteps)
ResolveFrame(t) ==
    Frame("Resolve", NilFn, BindOptions(FALSE, FALSE, << >>), NilVal, ResolveSteps(t))

CallFrame(name) ==
    Frame("Call", CHOOSE fn \in UserFuncs : fn.name = name, BindOptions(FALSE, FALSE, << >>),
          NilVal, CallSteps(CHOOSE fn \in UserFuncs : fn.name = name))

\* the calls goroutines make
GoCalls ==
    { SingletonFrame("newCircle", FALSE), SingletonFrame("withShape", FALSE),
      SingletonFrame("newMongoDB", TRUE), FactoryFrame("newCircle"),
      ImplementationFrame("*Circle"), ResetFrame, ResolveFrame("Shape"),
      CallFrame("func(Shape)") }

\* the calls user code makes back into the package while it runs
UserCalls == { FactoryFrame("newCircle"), ResetFrame, ResolveFrame("Shape") }

\* the instances bind stores for a singleton constructor (instances are not
\* told apart here: every one has the identity 0)
Products(constructor) ==
    [i \in 1..numRealInstances(constructor) |->
        IF constructor.rets[i] = NilTpl THEN NilVal
        ELSE [NewVal(constructor.rets[i].cls, constructor.rets[i].cerr, 0)
                EXCEPT !.constructed = "Constructor" \in Implements(constructor.rets[i].cls)]]

\* the innermost call the goroutine p is in, and its next step
Top(p) == stacks[p].frames[Len(stacks[p].frames)]
At(p, k) == stacks[p].frames # << >> /\ Head(Top(p).todo).k = k

\* the goroutine p has done a step of its innermost call: todo is what is left
\* of the call, which has returned when nothing is left
Stepped(p, todo) ==
    IF todo = << >>
    THEN [stacks EXCEPT ![p].frames = SubSeq(@, 1, Len(@) - 1)]
    ELSE [stacks EXCEPT ![p].frames[Len(stacks[p].frames)].todo = todo]

\* the goroutine p has done a step on container.lock
LockStepped(p, m) ==
    /\ locks' = [locks EXCEPT ![Top(p).cnt] = m]
    /\ stacks' = Stepped(p, Tail(Top(p).todo))
    /\ UNCHANGED <<bindings, next, nbinds, last, resolvers>>

AcquireRead(p) ==
    /\ At(p, "RLock")
    /\ RLockReady(locks[Top(p).cnt])
    /\ LockStepped(p, RLocked(locks[Top(p).cnt], p))

ReleaseRead(p) ==
    /\ At(p, "RUnlock")
    /\ LockStepped(p, RUnlocked(locks[Top(p).cnt], p))

AwaitWrite(p) ==
    /\ At(p, "Lock")
    /\ LockReady(locks[Top(p).cnt])
    /\ LockStepped(p, LockAwaited(locks[Top(p).cnt], p))

AcquireWrite(p) ==
    /\ At(p, "Wait")
    /\ LockReturns(locks[Top(p).cnt], p)
    /\ LockStepped(p, Locked(locks[Top(p).cnt], p))

ReleaseWrite(p) ==
    /\ At(p, "Unlock")
    /\ LockStepped(p, Released(locks[Top(p).cnt], p))

\* container.ListBindings on the type t: todo is the deferred RUnlock and what
\* follows it.  Without a map for the type the error is returned, and
\* getBinding, which has no other container to look in, returns it.
readSteps(cnt, t, todo) ==
    IF t \notin DOMAIN bindings[cnt] THEN << todo[1] >> ELSE todo

ReadMap(p) ==
    /\ At(p, "Read")
    /\ stacks' = Stepped(p, readSteps(Top(p).cnt, Head(Top(p).todo).t, Tail(Top(p).todo)))
    /\ UNCHANGED <<bindings, next, nbinds, last, resolvers, locks>>

\* the map the Index step of a call on cnt reads: the one the container holds
\* for the type, which bind and Implementation write in place, unless Reset
\* has taken it out of the container since ListBindings returned it
heldMap(cnt, step) ==
    IF step.held = << >> THEN bindings[cnt][step.t] ELSE step.held[1]

\* resolver.getBinding and resolveBindingInstance on the map bnds: todo is what
\* follows the lookup.  Without a binding of the default name the call returns
\* the error; an instance is returned; a factory is invoked.
indexSteps(bnds, todo) ==
    IF DefaultBindName \notin DOMAIN bnds THEN << >>
    ELSE IF bnds[DefaultBindName].instance # NilVal THEN todo
    ELSE IF bnds[DefaultBindName].factory = NilFn THEN << >>
    ELSE resolveFactorySteps(bnds[DefaultBindName].factory) \o todo

IndexMap(p) ==
    /\ At(p, "Index")
    /\ stacks' = Stepped(p, indexSteps(heldMap(Top(p).cnt, Head(Top(p).todo)),
                                       Tail(Top(p).todo)))
    /\ UNCHANGED <<bindings, next, nbinds, last, resolvers, locks>>

\* Reset deletes the keys of container.bindings: a map that ListBindings has
\* returned stays as it is with the caller that holds it
detachedStep(cnt, step) ==
    IF step.k = "Index" /\ step.held = << >> /\ step.t \in DOMAIN bindings[cnt]
    THEN [step EXCEPT !.held = << bindings[cnt][step.t] >>]
    ELSE step

detachedFrame(cnt, frame) ==
    IF frame.cnt # cnt THEN frame
    ELSE [frame EXCEPT !.todo =
            [i \in DOMAIN frame.todo |->
               IF i <= 2 /\ (i = 1 \/ frame.todo[1].k = "RUnlock")
               THEN detachedStep(cnt, frame.todo[i])
               ELSE frame.todo[i]]]

detached(cnt, sts) ==
    [p \in Procs |->
       [sts[p] EXCEPT !.frames = [i \in DOMAIN sts[p].frames |->
                                    detachedFrame(cnt, sts[p].frames[i])]]]

\* the bindings of the container once the call of the frame has written them
written(frame) ==
    CASE frame.op = "Reset" -> reset(frame.cnt)
      [] frame.op = "Implementation" -> implement(frame.cnt, frame.val, frame.opts.names)
      [] OTHER -> store(bindings[frame.cnt], frame.fn, frame.opts, Products(frame.fn),
                        numRealInstances(frame.fn), 1)

WriteMap(p) ==
    /\ At(p, "Write")
    /\ bindings' = [bindings EXCEPT ![Top(p).cnt] = written(Top(p))]
    /\ stacks' = IF Top(p).op = "Reset"
                 THEN detached(Top(p).cnt, Stepped(p, Tail(Top(p).todo)))
                 ELSE Stepped(p, Tail(Top(p).todo))
    /\ UNCHANGED <<next, nbinds, last, resolvers, locks>>

\* user code calls the package while it runs
UserCall(p, call) ==
    /\ At(p, "User")
    /\ Head(Top(p).todo).n = 0
    /\ Len(stacks[p].frames) <= MaxNest
    /\ stacks' = [stacks EXCEPT ![p].frames =
                     Append([@ EXCEPT ![Len(@)].todo[1].n = 1], call)]
    /\ UNCHANGED <<bindings, next, nbinds, last, resolvers, locks>>

\* resolver.invoke: user code returns; a non-nil error that follows another
\* output ends the call
UserReturn(p) ==
    /\ At(p, "User")
    /\ stacks' = Stepped(p, IF /\ Len(Head(Top(p).todo).fn.outs) > 1
                               /\ Head(Top(p).todo).fn.rets[Len(Head(Top(p).todo).fn.rets)] = ErrTpl
                            THEN << >>
                            ELSE Tail(Top(p).todo))
    /\ UNCHANGED <<bindings, next, nbinds, last, resolvers, locks>>

\* a goroutine calls the package
Go(p, call) ==
    /\ stacks[p].frames = << >>
    /\ stacks[p].calls < MaxCalls
    /\ stacks' = [stacks EXCEPT ![p] = [frames |-> << call >>, calls |-> @.calls + 1]]
    /\ UNCHANGED <<bindings, next, nbinds, last, resolvers, locks>>

\* the goroutine p goes on with the call it is in
Run(p) ==
    \/ AcquireRead(p)
    \/ ReleaseRead(p)
    \/ AwaitWrite(p)
    \/ AcquireWrite(p)
    \/ ReleaseWrite(p)
    \/ ReadMap(p)
    \/ IndexMap(p)
    \/ WriteMap(p)
    \/ \E call \in UserCalls : UserCall(p, call)
    \/ UserReturn(p)

InitLock ==
    /\ bindings = [cnt \in Containers |->
                     IF cnt = "c1"
                     THEN Put(EmptyMap, "context.Context",
                              Put(EmptyMap, DefaultBindName,
                                  Binding(NilFn, Outside("backgroundCtx"), FALSE)))
                     ELSE EmptyMap]
    /\ next = 0
    /\ nbinds = [cnt \in Containers |-> 0]
    /\ last = NoCall
    /\ resolvers = << NewResolver(<<"c1">>) >>
    /\ NoGoroutines

NextLock ==
    \/ \E p \in Procs, call \in GoCalls : Go(p, call)
    \/ \E p \in Procs : Run(p)

\* the Go scheduler lets every goroutine that can run go on
SpecLock == InitLock /\ [][NextLock]_vars /\ \A p \in Procs : WF_vars(Run(p))

\* ---------------------------------------------------------------- properties
\* how often the function of that name was invoked during the latest call
Count(log, name) == Cardinality({ i \in DOMAIN log : log[i].fn = name })

\* the Binding a lookup of (abstraction, name) through r selects
Selected(r, abstraction, name) == getBinding(r, abstraction, name).bnd

\* (abstraction, name) is bound, through r, to a Binding that holds no factory:
\* one stored by Singleton or Implementation, or a With() implementation
InstanceBound(r, abstraction, name) ==
    /\ getBinding(r, abstraction, name).err = NoErr
    /\ Selected(r, abstraction, name).factory = NilFn

\* the name a struct field asks for
FieldName(f) == IF TagKind(f.tag) = "type" THEN DefaultBindName ELSE f.name

\* the latest call was a successful Singleton / a Singleton or Factory
SingletonBoundNow == last.op = "Singleton" /\ last.err = NoErr

\* C1: after a successful Singleton the constructor has been invoked exactly
\* once, at bind time, and every later Resolve, Call or Fill lookup of a
\* (type, name) bound that way returns the stored instance and invokes no
\* constructor again.
C1_SingletonLookupsReturnStoredInstance ==
    /\ SingletonBoundNow => Count(last.log, last.fn.name) = 1
    /\ (/\ last.op = "Resolve"
        /\ last.abstraction # ""
        /\ InstanceBound(last.r, last.abstraction, last.name))
       => /\ last.err = NoErr
          /\ last.val = Selected(last.r, last.abstraction, last.name).instance
          /\ last.log = << >>
    /\ (/\ last.op = "Call"
        /\ last.fn.kind = "func"
        /\ \A i \in DOMAIN last.fn.ins : InstanceBound(last.r, last.fn.ins[i], DefaultBindName))
       => last.log = <<Invoked(last.fn)>>
    /\ (/\ last.op = "Fill"
        /\ ElemKind(TypeOf(last.receiver)) = "struct"
        /\ \A i \in DOMAIN StructFields(TypeOf(last.receiver)) :
              InstanceBound(last.r, StructFields(TypeOf(last.receiver))[i].type,
                            FieldName(StructFields(TypeOf(last.receiver))[i])))
       => /\ last.err = NoErr
          /\ last.log = << >>
          /\ \A i \in DOMAIN StructFields(TypeOf(last.receiver)) :
                last.val.fld[i] =
                    Selected(last.r, StructFields(TypeOf(last.receiver))[i].type,
                             FieldName(StructFields(TypeOf(last.receiver))[i])).instance

\* (abstraction, name) is bound, through r, to a factory Binding
FactoryBound(r, abstraction, name) ==
    /\ getBinding(r, abstraction, name).err = NoErr
    /\ Selected(r, abstraction, name).instance = NilVal
    /\ Selected(r, abstraction, name).factory # NilFn

\* the latest call invoked the constructor once and then, where the value it
\* returned has one, the Construct hook of that value once
ConstructedOnce(ctor, v) ==
    /\ Count(last'.log, ctor) = 1
    /\ Count(last'.log, "Construct") = IF "Constructor" \in Implements(TypeOf(v)) THEN 1 ELSE 0
    /\ "Constructor" \in Implements(TypeOf(v)) =>
          /\ last'.log[Len(last'.log)] = [fn |-> "Construct", on |-> v.id]
          /\ last'.log[Len(last'.log) - 1].fn = ctor

\* C2: Factory invokes the constructor zero times at bind time; afterwards each
\* materialization of the binding invokes the constructor exactly once and
\* then the Construct hook of the produced value exactly once (when it has
\* one), and the value returned is a newly constructed one: it is none of the
\* values that existed before the call.
C2_FactoryConstructsPerMaterialization ==
    [][/\ (last'.op = "Factory" /\ last'.err = NoErr) =>
             (last'.log = << >> /\ next' = next)
       /\ (/\ last'.op = "Resolve"
           /\ last'.abstraction # ""
           /\ FactoryBound(last'.r, last'.abstraction, last'.name))
          => /\ Count(last'.log, Selected(last'.r, last'.abstraction, last'.name).factory.name) <= 1
             /\ last'.err = NoErr =>
                   /\ ConstructedOnce(Selected(last'.r, last'.abstraction, last'.name).factory.name,
                                      last'.val)
                   /\ last'.val.id > next
                   /\ last'.val.id = next'
                   /\ TypeOf(last'.val) =
                         Selected(last'.r, last'.abstraction, last'.name).factory.rets[1].cls
       /\ (/\ last'.op = "Call"
           /\ last'.fn = Fn("func(Shape)", "func", <<"Shape">>, << >>, << >>)
           /\ FactoryBound(last'.r, "Shape", DefaultBindName)
           /\ last'.err = NoErr)
          => /\ Count(last'.log, Selected(last'.r, "Shape", DefaultBindName).factory.name) = 1
             /\ last'.log[Len(last'.log)] = Invoked(last'.fn)
             /\ next' > next
      ]_vars

\* the factory of newMongoDB has been materialized for the second time: the
\* hook has run on the second value
C2_Witness ==
    /\ last.op = "Resolve"
    /\ last.err = NoErr
    /\ FactoryBound(last.r, last.abstraction, last.name)
    /\ Selected(last.r, last.abstraction, last.name).factory.name = "newMongoDB"
    /\ last.val.constructed
    /\ last.val.id = 2
    /\ Sum(nbinds) = 1

\* no container of r's chain binds (abstraction, name) and no With()
\* implementation of r satisfies it
Unbound(r, abstraction, name) ==
    /\ \A i \in DOMAIN r.containers :
          ~(/\ abstraction \in DOMAIN bindings[r.containers[i]]
            /\ name \in DOMAIN bindings[r.containers[i]][abstraction])
    /\ ~(/\ name = DefaultBindName
         /\ \E i \in DOMAIN r.implementations :
               AssignableTo(TypeOf(r.implementations[i]), abstraction))

\* a lookup of (abstraction, name) through r gives a value
Resolvable(r, abstraction, name) ==
    resolveBinding(r, abstraction, name, Effects(0, << >>), MaxDepth).err = NoErr

\* ... and the value is not nil
ResolvableNonNil(r, abstraction, name) ==
    /\ Resolvable(r, abstraction, name)
    /\ resolveBinding(r, abstraction, name, Effects(0, << >>), MaxDepth).val # NilVal

\* C3: for a (type, name) that no container of the resolver's chain binds and
\* no With() implementation satisfies, Resolve of it, Call of a function whose
\* first parameter that does not resolve is of that type, and Fill of a struct
\* whose first field that does not resolve asks for it, return NotFound for
\* that type (and invoke neither the function nor a further constructor).
C3_UnboundIsNotFound ==
    /\ (/\ last.op = "Resolve"
        /\ last.abstraction # ""
        /\ Unbound(last.r, last.abstraction, last.name))
       => (last.err = ErrNotFound(last.abstraction) /\ last.log = << >>)
    /\ last.op = "Call" /\ last.fn.kind = "func" =>
          \A i \in DOMAIN last.fn.ins :
             (/\ Unbound(last.r, last.fn.ins[i], DefaultBindName)
              /\ \A j \in 1..(i - 1) : Resolvable(last.r, last.fn.ins[j], DefaultBindName))
             => /\ last.err = ErrNotFound(last.fn.ins[i])
                /\ Count(last.log, last.fn.name) = 0
    /\ last.op = "Fill" /\ ElemKind(TypeOf(last.receiver)) = "struct" =>
          \A i \in DOMAIN StructFields(TypeOf(last.receiver)) :
             (/\ Unbound(last.r, StructFields(TypeOf(last.receiver))[i].type,
                         FieldName(StructFields(TypeOf(last.receiver))[i]))
              /\ \A j \in 1..(i - 1) :
                    ResolvableNonNil(last.r, StructFields(TypeOf(last.receiver))[j].type,
                                     FieldName(StructFields(TypeOf(last.receiver))[j])))
             => last.err = ErrNotFound(StructFields(TypeOf(last.receiver))[i].type)

\* Call of func(Shape, Database) with Shape bound and Database unbound, and
\* Fill of struct{S Shape; D Database} in the same registry state
C3_Witness ==
    /\ last.op \in {"Call", "Fill"}
    /\ last.op = "Call" => last.fn.ins = <<"Shape", "Database">>
    /\ last.op = "Fill" => TypeOf(last.receiver) = "*struct{S;D}"
    /\ ~Unbound(last.r, "Shape", DefaultBindName)
    /\ Unbound(last.r, "Database", DefaultBindName)
    /\ last.err = ErrNotFound("Database")
    /\ last.r.containers = <<"c1", "c2">>

\* C4: Reset leaves the registry without any binding (and the other registry
\* as it was); while a registry holds no binding every Resolve through a
\* resolver over that registry alone returns NotFound, for every type and
\* name; and the registry stays empty under Resolve, Call and Fill, that is
\* until a new bind is made.
C4_ResetEmptiesRegistry ==
    [][/\ last'.op = "Reset" =>
             /\ bindings'[last'.cnt] = EmptyMap
             /\ \A cnt \in Containers \ {last'.cnt} : bindings'[cnt] = bindings[cnt]
       /\ \A cnt \in Containers :
             (/\ bindings[cnt] = EmptyMap
              /\ last'.op = "Resolve"
              /\ last'.r = Resolver(<<cnt>>, << >>)
              /\ last'.abstraction # "")
             => /\ last'.err = ErrNotFound(last'.abstraction)
                /\ last'.val = NilVal
       /\ last'.op \in {"Resolve", "Call", "Fill"} => bindings' = bindings
      ]_vars

\* c1 was bound to, has been Reset, and a Resolve through it finds nothing
C4_Witness ==
    /\ last.op = "Resolve"
    /\ last.r = Resolver(<<"c1">>, << >>)
    /\ nbinds["c1"] > 0
    /\ bindings["c1"] = EmptyMap
    /\ last.abstraction = "Shape"
    /\ last.err = ErrNotFound("Shape")

\* the values a constructor returns that are not its trailing error
Useful(fn) ==
    IF Len(fn.outs) > 0 /\ fn.outs[Len(fn.outs)] = "error"
    THEN SubSeq(fn.outs, 1, Len(fn.outs) - 1)
    ELSE fn.outs

\* bind-time validation rejects the call: the constructor is no function, it
\* returns nothing useful, a factory's returns are neither (T) nor (T, error),
\* or a singleton of N > 1 useful values is given other than 0, 1 or N names
Rejected(fn, opts) ==
    \/ fn.kind # "func"
    \/ Len(Useful(fn)) = 0
    \/ opts.factory /\ Len(Useful(fn)) # 1
    \/ /\ ~opts.factory
       /\ Len(Useful(fn)) > 1
       /\ Len(opts.names) \notin {0, 1, Len(Useful(fn))}

ParameterFails(cnt, fn) ==
    \E i \in DOMAIN fn.ins : ~Resolvable(getResolver(cnt), fn.ins[i], DefaultBindName)

\* the constructor returns a non-nil trailing error
ConstructorFails(fn) ==
    /\ Len(fn.outs) > 0
    /\ fn.outs[Len(fn.outs)] = "error"
    /\ fn.rets[Len(fn.rets)] = ErrTpl

\* Fill of a value the constructor produces fails
FillFails(cnt, fn) ==
    \E i \in DOMAIN Useful(fn) :
       Fill(getResolver(cnt),
            IF fn.rets[i] = NilTpl THEN NilVal ELSE NewVal(fn.rets[i].cls, fn.rets[i].cerr, 0),
            << >>, Effects(0, << >>)).err # NoErr

\* the Construct hook of a value the constructor produces returns an error
HookFails(fn) == \E i \in DOMAIN Useful(fn) : fn.rets[i].cerr

\* C6: when, during Singleton, a parameter of the constructor cannot be
\* resolved, the constructor returns a non-nil trailing error, Fill of a
\* produced value fails (WithFill), or the Construct hook of a produced value
\* fails, Singleton returns an error and the bindings are as before the call.
C6_FailedSingletonStoresNothing ==
    [][(/\ last'.op = "Singleton"
        /\ ~Rejected(last'.fn, last'.opts)
        /\ \/ ParameterFails(last'.cnt, last'.fn)
           \/ ConstructorFails(last'.fn)
           \/ last'.opts.fill /\ FillFails(last'.cnt, last'.fn)
           \/ HookFails(last'.fn))
       => /\ last'.err # NoErr
          /\ bindings' = bindings
      ]_vars

\* the name the i-th value of a singleton constructor of several values goes
\* under: the default name without names, the one name, or the i-th of N names
NameOf(opts, i) ==
    IF Len(opts.names) = 0 THEN DefaultBindName
    ELSE IF Len(opts.names) = 1 THEN opts.names[1]
    ELSE opts.names[i]

\* the registry cnt holds the instance v under (abstraction, name)
Holds(cnt, abstraction, name, v) ==
    /\ abstraction \in DOMAIN bindings[cnt]
    /\ name \in DOMAIN bindings[cnt][abstraction]
    /\ bindings[cnt][abstraction][name].instance = v
    /\ bindings[cnt][abstraction][name].factory = NilFn

\* the latest call was a successful Singleton of a constructor of N > 1 values
MultiBoundNow == SingletonBoundNow /\ Len(Useful(last.fn)) > 1

\* C7 as stated: after a successful Singleton of a constructor of N > 1 useful
\* values, value i is stored under (Ti, NameOf i), for every i.
C7_EveryValueStored ==
    MultiBoundNow =>
       \A i \in DOMAIN Useful(last.fn) :
          Holds(last.cnt, last.fn.outs[i], NameOf(last.opts, i), last.rets[i])

\* C7 (amended): after a successful Singleton of a constructor of N > 1 useful
\* values, value i is stored under (Ti, NameOf i) unless a later value j > i
\* has the same type and name, which then holds value j; the trailing error
\* is never stored: no registry binds the error type, and a Resolve of it
\* through the registries returns NotFound.
C7_LastValueOfATypeAndNameStored ==
    /\ MultiBoundNow =>
          \A i \in DOMAIN Useful(last.fn) :
             (\A j \in DOMAIN Useful(last.fn) :
                 j > i => ~(/\ last.fn.outs[j] = last.fn.outs[i]
                            /\ NameOf(last.opts, j) = NameOf(last.opts, i)))
             => Holds(last.cnt, last.fn.outs[i], NameOf(last.opts, i), last.rets[i])
    /\ \A cnt \in Containers : "error" \notin DOMAIN bindings[cnt]
    /\ (last.op = "Resolve" /\ last.abstraction = "error" /\ last.r.implementations = << >>)
       => last.err = ErrNotFound("error")

\* func() (Shape, Database, error) bound under the names kek and bek: the
\* Database it returned is stored under bek
C7_Witness ==
    /\ MultiBoundNow
    /\ last.fn.outs = <<"Shape", "Database", "error">>
    /\ last.opts.names = <<"kek", "bek">>
    /\ Holds(last.cnt, "Shape", "kek", last.rets[1])
    /\ Holds(last.cnt, "Database", "bek", last.rets[2])
    /\ last.rets[1] # last.rets[2]

\* the call recorded in call was a successful Singleton of a constructor of
\* one useful value, given names
AliasBound(call) ==
    /\ call.op = "Singleton"
    /\ call.err = NoErr
    /\ Len(Useful(call.fn)) = 1
    /\ Len(call.opts.names) >= 1

\* the names of a sequence of names
Range(names) == { names[k] : k \in DOMAIN names }

\* (abstraction, name) is bound in the bindings bnds of one registry
BoundIn(bnds, abstraction, name) ==
    abstraction \in DOMAIN bnds /\ name \in DOMAIN bnds[abstraction]

\* C8: a successful Singleton of a constructor of one useful value with the
\* names n1..nk constructs once and stores the one instance under every ni, so
\* that a Resolve with each ni yields that instance; the default name is not
\* bound by the call unless it is among the names (a default-named Resolve
\* still returns NotFound).
C8_AliasesShareOneInstance ==
    [][/\ AliasBound(last') =>
             /\ Count(last'.log, last'.fn.name) = 1
             /\ \A n \in Range(last'.opts.names) :
                   /\ BoundIn(bindings'[last'.cnt], last'.fn.outs[1], n)
                   /\ bindings'[last'.cnt][last'.fn.outs[1]][n].instance = last'.rets[1]
             /\ DefaultBindName \notin Range(last'.opts.names) =>
                   (BoundIn(bindings'[last'.cnt], last'.fn.outs[1], DefaultBindName)
                      <=> BoundIn(bindings[last'.cnt], last'.fn.outs[1], DefaultBindName))
       /\ (/\ AliasBound(last)
           /\ last'.op = "Resolve"
           /\ last'.r = Resolver(<<last.cnt>>, << >>)
           /\ last'.abstraction = last.fn.outs[1])
          => /\ last'.name \in Range(last.opts.names) =>
                   (last'.err = NoErr /\ last'.val = last.rets[1] /\ last'.log = << >>)
             /\ (/\ last'.name = DefaultBindName
                 /\ ~BoundIn(bindings[last.cnt], last.fn.outs[1], DefaultBindName))
                => last'.err = ErrNotFound(last'.abstraction)
      ]_vars

GivenNames(names) == IF Len(names) = 0 THEN {DefaultBindName} ELSE Range(names)

\* C10: Implementation(x, names) stores x, keyed by its concrete type, under
\* every name given, so that a Resolve of the concrete type succeeds under
\* each of them; without names it stores x under the default name only.
C10_ImplementationStoresUnderEveryName ==
    [][/\ last'.op = "Implementation" =>
             /\ \A n \in GivenNames(last'.opts.names) :
                   /\ BoundIn(bindings'[last'.cnt], TypeOf(last'.val), n)
                   /\ bindings'[last'.cnt][TypeOf(last'.val)][n].instance = last'.val
             /\ \A n \in Names \ GivenNames(last'.opts.names) :
                   BoundIn(bindings'[last'.cnt], TypeOf(last'.val), n)
                      <=> BoundIn(bindings[last'.cnt], TypeOf(last'.val), n)
       /\ (/\ last.op = "Implementation"
           /\ last'.op = "Resolve"
           /\ last'.r = Resolver(<<last.cnt>>, << >>)
           /\ last'.abstraction = TypeOf(last.val)
           /\ last'.name \in GivenNames(last.opts.names))
          => (last'.err = NoErr /\ last'.val = last.val)
      ]_vars

\* the With() implementations of r that satisfy the type, by position
Overriding(r, abstraction) ==
    { i \in DOMAIN r.implementations : AssignableTo(TypeOf(r.implementations[i]), abstraction) }

\* the first With() implementation of r that satisfies the type
FirstOverride(r, abstraction) == r.implementations[Min(Overriding(r, abstraction))]

\* the request (abstraction, name) through r is one a With() implementation answers
Overridden(r, abstraction, name) ==
    name = DefaultBindName /\ Overriding(r, abstraction) # {}

\* C11: through r.With(x1..xk), a default-named request for a type that some
\* xi satisfies is answered with the first such xi, whatever the registries
\* bind, without invoking a constructor or hook and without storing anything
\* (Resolve, each parameter of Call, each field of a struct Fill); a request
\* that no xi satisfies, or that is not default-named, gives what the same
\* request gives through the registry chain alone (NotFound if unbound).
C11_OverrideAnswersDefaultNamedRequest ==
    [][/\ (/\ last'.op = "Resolve"
           /\ Overridden(last'.r, last'.abstraction, last'.name))
          => /\ last'.err = NoErr
             /\ last'.val = FirstOverride(last'.r, last'.abstraction)
             /\ last'.log = << >>
             /\ next' = next
             /\ bindings' = bindings
       /\ (/\ last'.op = "Resolve"
           /\ last'.abstraction # ""
           /\ ~Overridden(last'.r, last'.abstraction, last'.name))
          => /\ last'.err = Resolve(NewResolver(last'.r.containers), last'.abstraction,
                                    last'.name, Effects(next, << >>)).err
             /\ last'.val = Resolve(NewResolver(last'.r.containers), last'.abstraction,
                                    last'.name, Effects(next, << >>)).val
             /\ Unbound(NewResolver(last'.r.containers), last'.abstraction, last'.name)
                   => last'.err = ErrNotFound(last'.abstraction)
       /\ (/\ last'.op = "Call"
           /\ last'.fn.kind = "func"
           /\ \A i \in DOMAIN last'.fn.ins :
                 Overridden(last'.r, last'.fn.ins[i], DefaultBindName))
          => /\ last'.log = <<Invoked(last'.fn)>>
             /\ bindings' = bindings
       /\ (/\ last'.op = "Fill"
           /\ ElemKind(TypeOf(last'.receiver)) = "struct"
           /\ \A i \in DOMAIN StructFields(TypeOf(last'.receiver)) :
                 Overridden(last'.r, StructFields(TypeOf(last'.receiver))[i].type,
                            FieldName(StructFields(TypeOf(last'.receiver))[i])))
          => /\ last'.err = NoErr
             /\ last'.log = << >>
             /\ bindings' = bindings
             /\ \A i \in DOMAIN StructFields(TypeOf(last'.receiver)) :
                   last'.val.fld[i] =
                       FirstOverride(last'.r, StructFields(TypeOf(last'.receiver))[i].type)
      ]_vars

\* a Shape is asked for through With(mysql, circle, circle2) while c1 binds
\* (Shape, default): the answer is the first circle given, the second override
C11_Witness ==
    /\ last.op = "Resolve"
    /\ last.abstraction = "Shape"
    /\ last.name = DefaultBindName
    /\ Len(last.r.implementations) = 3
    /\ BoundIn(bindings["c1"], "Shape", DefaultBindName)
    /\ last.err = NoErr
    /\ last.val = Outside("*Circle")
    /\ last.val = last.r.implementations[2]

\* C12: r.With(instances...) returns a new resolver and leaves r as it was: the
\* containers and the implementations of r, and of every other resolver made
\* before, are the same after the call, the bindings of the registries are
\* unchanged, and every Resolve, Call and Fill through r gives after the call
\* (on r as it then is, over those unchanged bindings) what it gave before; the resolver returned has r's containers and the
\* instances given.
C12_WithLeavesResolverUnchanged ==
    [][last'.op = "With" =>
          /\ Len(resolvers') = Len(resolvers) + 1
          /\ \A i \in DOMAIN resolvers : resolvers'[i] = resolvers[i]
          /\ resolvers'[Len(resolvers')].containers = resolvers[last'.at].containers
          /\ resolvers'[Len(resolvers')].implementations = last'.rets
          /\ bindings' = bindings
          /\ \A receiver \in {"Shape", "Database", "*Circle"}, name \in {DefaultBindName, "kek"} :
                Resolve(resolvers'[last'.at], receiver, name, Effects(0, << >>))
                   = Resolve(resolvers[last'.at], receiver, name, Effects(0, << >>))
          /\ \A function \in WithFuncs :
                Call(resolvers'[last'.at], function, << >>, Effects(0, << >>))
                   = Call(resolvers[last'.at], function, << >>, Effects(0, << >>))
          /\ Fill(resolvers'[last'.at], Outside("*struct{S;D}"), << >>, Effects(0, << >>))
                = Fill(resolvers[last'.at], Outside("*struct{S;D}"), << >>, Effects(0, << >>))
      ]_vars

\* With(mysql) has been called on a resolver that With(mysql, circle, circle2)
\* had returned, over registries that hold a binding
C12_Witness ==
    /\ last.op = "With"
    /\ last.at = 2
    /\ Len(resolvers) = 3
    /\ Len(resolvers[2].implementations) = 3
    /\ Len(resolvers[3].implementations) = 1
    /\ bindings["c1"] # EmptyMap

\* the registries of r's chain that bind (abstraction, name), by position
Binders(r, abstraction, name) ==
    { i \in DOMAIN r.containers : BoundIn(bindings[r.containers[i]], abstraction, name) }

\* the Binding of the first registry of r's chain that binds (abstraction, name)
FirstBound(r, abstraction, name) ==
    bindings[r.containers[Min(Binders(r, abstraction, name))]][abstraction][name]

\* C13: a Resolve of (T, n) that no With() implementation answers gives what
\* materializing the Binding of the first registry of the chain that binds
\* (T, n) gives - the instance it holds, or a value newly made by its factory -
\* also when an earlier registry binds T under other names only; it returns
\* NotFound for T exactly when no registry of the chain binds (T, n).
C13_FirstRegistryThatBindsWins ==
    [][(/\ last'.op = "Resolve"
        /\ last'.abstraction # ""
        /\ ~Overridden(last'.r, last'.abstraction, last'.name))
       => /\ Binders(last'.r, last'.abstraction, last'.name) = {}
                <=> last'.err = ErrNotFound(last'.abstraction)
          /\ Binders(last'.r, last'.abstraction, last'.name) # {} =>
                /\ last'.err =
                      ResolveSet(resolveBindingInstance(
                          last'.r, FirstBound(last'.r, last'.abstraction, last'.name),
                          Effects(next, << >>), MaxDepth - 1)).err
                /\ last'.val =
                      ResolveSet(resolveBindingInstance(
                          last'.r, FirstBound(last'.r, last'.abstraction, last'.name),
                          Effects(next, << >>), MaxDepth - 1)).val
                /\ FirstBound(last'.r, last'.abstraction, last'.name).instance # NilVal =>
                      /\ last'.err = NoErr
                      /\ last'.val = FirstBound(last'.r, last'.abstraction, last'.name).instance
                /\ (/\ FirstBound(last'.r, last'.abstraction, last'.name).factory # NilFn
                    /\ last'.err = NoErr)
                   => /\ last'.val.id = next'
                      /\ next' > next
                      /\ TypeOf(last'.val) =
                            FirstBound(last'.r, last'.abstraction, last'.name).factory.rets[1].cls
      ]_vars

\* c1 binds Shape under kek only and c2 binds (Shape, default): a default-named
\* Resolve through the chain c1, c2 returns the instance of c2
C13_Witness ==
    /\ last.op = "Resolve"
    /\ last.r = NewResolver(<<"c1", "c2">>)
    /\ last.abstraction = "Shape"
    /\ last.name = DefaultBindName
    /\ BoundIn(bindings["c1"], "Shape", "kek")
    /\ ~BoundIn(bindings["c1"], "Shape", DefaultBindName)
    /\ BoundIn(bindings["c2"], "Shape", DefaultBindName)
    /\ last.err = NoErr
    /\ last.val = bindings["c2"]["Shape"][DefaultBindName].instance
    /\ last.val # bindings["c1"]["Shape"]["kek"].instance

\* the field f of a struct filled through r is optional and finds no binding
Skipped(r, f) == TagOmitempty(f.tag) /\ Unbound(r, f.type, FieldName(f))

\* the field f of a struct filled through r finds a value
Filled(r, f) == ResolvableNonNil(r, f.type, FieldName(f))

Pairs(r, abstraction) ==
    UNION { { <<c, n>> : n \in IF abstraction \in DOMAIN bindings[r.containers[c]]
                               THEN DOMAIN bindings[r.containers[c]][abstraction]
                               ELSE {} } : c \in DOMAIN r.containers }

\* the Binding of such a pair
BindingAt(r, abstraction, p) == bindings[r.containers[p[1]]][abstraction][p[2]]

\* no user code fails when bnd is materialized through r: bnd holds an
\* instance, or its factory finds its parameters and neither it nor the
\* Construct hook of its product returns an error
Materializes(r, bnd) ==
    IF bnd.factory = NilFn THEN TRUE
    ELSE /\ ~ConstructorFails(bnd.factory)
         /\ ~HookFails(bnd.factory)
         /\ \A i \in DOMAIN bnd.factory.ins :
               ResolvableNonNil(r, bnd.factory.ins[i], DefaultBindName)

\* the constructors (not the hooks) the latest call invoked
ConstructorCalls(log) == { i \in DOMAIN log : log[i].fn # "Construct" }

\* the latest call was a Fill of a slice / of a string-keyed map of a type
\* whose every binding in the chain materializes
FilledAll(kind) ==
    /\ last.op = "Fill"
    /\ ElemKind(TypeOf(last.receiver)) = kind
    /\ KeyType(TypeOf(last.receiver)) = "string"
    /\ Pairs(last.r, ElemType(TypeOf(last.receiver))) # {}
    /\ \A p \in Pairs(last.r, ElemType(TypeOf(last.receiver))) :
          Materializes(last.r, BindingAt(last.r, ElemType(TypeOf(last.receiver)), p))

\* C15: Fill of a slice of T gives one element per binding of T in the
\* registries of the chain (the stored instance of an instance binding, a
\* value of its own for a factory binding), Fill of a string-keyed map of T
\* gives an entry for every name under which a registry of the chain binds T,
\* and each factory binding collected is materialized once; both return
\* NotFound when no registry of the chain binds T, and Fill of a map with
\* another key type returns InvalidReceiver.
C15_CollectionFillCollectsEveryBinding ==
    /\ FilledAll("slice") =>
          /\ last.err = NoErr
          /\ Len(last.val.fld) = Cardinality(Pairs(last.r, ElemType(TypeOf(last.receiver))))
          /\ \A p \in Pairs(last.r, ElemType(TypeOf(last.receiver))) :
                BindingAt(last.r, ElemType(TypeOf(last.receiver)), p).factory = NilFn =>
                   Cardinality({ k \in DOMAIN last.val.fld :
                       last.val.fld[k] =
                          BindingAt(last.r, ElemType(TypeOf(last.receiver)), p).instance })
                   = Cardinality({ q \in Pairs(last.r, ElemType(TypeOf(last.receiver))) :
                       BindingAt(last.r, ElemType(TypeOf(last.receiver)), q).instance =
                          BindingAt(last.r, ElemType(TypeOf(last.receiver)), p).instance })
          /\ Cardinality(ConstructorCalls(last.log))
                = Cardinality({ p \in Pairs(last.r, ElemType(TypeOf(last.receiver))) :
                     BindingAt(last.r, ElemType(TypeOf(last.receiver)), p).factory # NilFn })
          /\ \A k \in DOMAIN last.val.fld :
                AssignableTo(TypeOf(last.val.fld[k]), ElemType(TypeOf(last.receiver)))
    /\ FilledAll("map") =>
          /\ last.err = NoErr
          /\ DOMAIN last.val.fld
                = { p[2] : p \in Pairs(last.r, ElemType(TypeOf(last.receiver))) }
          /\ Cardinality(ConstructorCalls(last.log))
                = Cardinality({ p \in Pairs(last.r, ElemType(TypeOf(last.receiver))) :
                     BindingAt(last.r, ElemType(TypeOf(last.receiver)), p).factory # NilFn })
          /\ \A n \in DOMAIN last.val.fld :
                AssignableTo(TypeOf(last.val.fld[n]), ElemType(TypeOf(last.receiver)))
    /\ (/\ last.op = "Fill"
        /\ ElemKind(TypeOf(last.receiver)) \in {"slice", "map"}
        /\ KeyType(TypeOf(last.receiver)) = "string"
        /\ Pairs(last.r, ElemType(TypeOf(last.receiver))) = {})
       => last.err = ErrNotFound(ElemType(TypeOf(last.receiver)))
    /\ (/\ last.op = "Fill"
        /\ ElemKind(TypeOf(last.receiver)) = "map"
        /\ KeyType(TypeOf(last.receiver)) # "string")
       => last.err.code = "InvalidReceiver"

\* the outputs of a function that are not its trailing error
NumOut(fn) == Len(fn.outs) - (IF returnsAnError(fn) THEN 1 ELSE 0)

\* the latest call was a Call with return targets whose arguments resolved and
\* whose function returned no error
CalledBack ==
    /\ last.op = "Call"
    /\ last.fn.kind = "func"
    /\ last.rets # << >>
    /\ Len(last.rets) = NumOut(last.fn)
    /\ \A i \in DOMAIN last.fn.ins : ResolvableNonNil(last.r, last.fn.ins[i], DefaultBindName)
    /\ ~ConstructorFails(last.fn)

\* every target holds the output of its position
Copied ==
    /\ last.err = NoErr
    /\ last.log # << >>
    /\ last.log[Len(last.log)] = Invoked(last.fn)
    /\ \A i \in DOMAIN last.rets : TypeOf(last.rets[i].val) = last.fn.rets[i].cls

\* C16 as stated: a Call with return targets succeeds and copies the outputs
\* exactly when there are as many targets as non-error outputs and the type
\* each target points to is the type of its output or is assignable from it;
\* another count gives ReturnCountMismatch, a target of a type that neither is
\* nor is assignable from the type of its output gives ReturnTypeMismatch.
C16_TargetsAssignableFromOutputs ==
    /\ (/\ last.op = "Call" /\ last.fn.kind = "func" /\ last.rets # << >>
        /\ Len(last.rets) # NumOut(last.fn))
       => last.err = Err("ReturnCountMismatch", "")
    /\ CalledBack =>
          IF \A i \in DOMAIN last.rets : AssignableTo(last.fn.outs[i], last.rets[i].elem)
          THEN Copied
          ELSE last.err.code = "ReturnTypeMismatch"

\* C16 (amended): ... exactly when there are as many targets as non-error
\* outputs and the type each target points to is identical to the declared
\* type of its output; another count gives ReturnCountMismatch (nothing is
\* invoked), and the first target of another type, also one the output could
\* be assigned to, gives ReturnTypeMismatch for that output.
C16_TargetsOfTheOutputTypes ==
    /\ (/\ last.op = "Call" /\ last.fn.kind = "func" /\ last.rets # << >>
        /\ Len(last.rets) # NumOut(last.fn))
       => (last.err = Err("ReturnCountMismatch", "") /\ last.log = << >>)
    /\ CalledBack =>
          IF \A i \in DOMAIN last.rets : last.fn.outs[i] = last.rets[i].elem
          THEN Copied
          ELSE last.err =
                  Err("ReturnTypeMismatch",
                      last.fn.outs[Min({ i \in DOMAIN last.rets :
                                           last.fn.outs[i] # last.rets[i].elem })])

\* func(Shape) (string, Database, error) called with WithReturn(&str, &db): str
\* holds the string and db the MySQL the function returned
C16_Witness ==
    /\ CalledBack
    /\ last.fn.outs = <<"string", "Database", "error">>
    /\ last.err = NoErr
    /\ TypeOf(last.rets[1].val) = "string"
    /\ TypeOf(last.rets[2].val) = "*MySQL"
    /\ last.rets[2].val.id = next

\* every di-tagged field of the value v holds a value of the field's type
FieldsFilled(v) ==
    \A i \in DOMAIN StructFields(TypeOf(v)) :
       /\ v.fld[i] # NilVal
       /\ AssignableTo(TypeOf(v.fld[i]), StructFields(TypeOf(v))[i].type)

\* a successful Singleton WithFill stores values whose di-tagged fields are
\* filled
SingletonFillAtBind ==
    (SingletonBoundNow /\ last.opts.fill) =>
       \A i \in DOMAIN last.rets :
          /\ FieldsFilled(last.rets[i])
          /\ Holds(last.cnt, last.fn.outs[i], NameOf(last.opts, i), last.rets[i])

\* C17: a Resolve of a factory binding registered WithFill returns the new
\* value with Fill applied to it: its di-tagged fields are filled when they
\* all find a value, and the Resolve fails when one of them finds none; just
\* as a successful Singleton WithFill stores values whose di-tagged fields are
\* filled.
C17_FactoryFillOnMaterialization ==
    /\ (/\ last.op = "Resolve"
        /\ last.abstraction # ""
        /\ FactoryBound(last.r, last.abstraction, last.name)
        /\ Selected(last.r, last.abstraction, last.name).fill)
       => IF \A i \in DOMAIN StructFields(
                           Selected(last.r, last.abstraction, last.name).factory.rets[1].cls) :
                Filled(last.r, StructFields(
                           Selected(last.r, last.abstraction, last.name).factory.rets[1].cls)[i])
          THEN last.err = NoErr /\ FieldsFilled(last.val)
          ELSE last.err # NoErr
    /\ SingletonFillAtBind

\* the Construct hook of the value v has run and returned no error
HookCompleted(v) == v.constructed /\ ~v.cerr

\* the positions of the log at which the Construct hook of the value v was invoked
HookCalls(log, v) == { k \in DOMAIN log : log[k] = [fn |-> "Construct", on |-> v.id] }

\* the values of the sequence vs that implement Constructor
Hooked(vs) == { i \in DOMAIN vs : "Constructor" \in Implements(TypeOf(vs[i])) }

\* the singleton instances the registries hold that implement Constructor
StoredHooked ==
    { bindings[cnt][t][name].instance :
        <<cnt, t, name>> \in { x \in Containers \X Types \X Names :
                                 /\ x[2] \in DOMAIN bindings[x[1]]
                                 /\ x[3] \in DOMAIN bindings[x[1]][x[2]]
                                 /\ bindings[x[1]][x[2]][x[3]].factory = NilFn
                                 /\ "Constructor" \in Implements(
                                        TypeOf(bindings[x[1]][x[2]][x[3]].instance)) } }

\* C18: a successful Singleton invokes the constructor first, then for each
\* produced value Fill (WithFill) and the Construct hook, once, and stores the
\* values after that; every stored singleton that has a hook has had it
\* complete without error; a Resolve or a Fill never invokes the hook of a
\* stored singleton; and a Singleton whose product has a hook fails with
\* NotFound(context.Context), storing nothing, when the registry binds no
\* context.Context at the time of the bind.
C18_HookBeforeStoreOncePerBind ==
    [][/\ (last'.op = "Singleton" /\ last'.err = NoErr) =>
             /\ last'.log[1] = Invoked(last'.fn)
             /\ \A i \in Hooked(last'.rets) :
                   /\ Cardinality(HookCalls(last'.log, last'.rets[i])) = 1
                   /\ \A k \in HookCalls(last'.log, last'.rets[i]) :
                         /\ k > 1
                         /\ \A j \in (k + 1)..Len(last'.log) : last'.log[j].fn = "Construct"
                   /\ last'.opts.fill => FieldsFilled(last'.rets[i])
                   /\ HookCompleted(last'.rets[i])
                   /\ last'.rets[i] \in StoredHooked'
       /\ (last'.op = "Singleton" /\ last'.err # NoErr) => bindings' = bindings
       /\ \A v \in StoredHooked' : HookCompleted(v)
       /\ (last'.op \in {"Resolve", "Fill"}) =>
             \A k \in DOMAIN last'.log :
                last'.log[k].fn = "Construct" => last'.log[k].on > next
       /\ (/\ last'.op = "Singleton"
           /\ ~Rejected(last'.fn, last'.opts)
           /\ ~ParameterFails(last'.cnt, last'.fn)
           /\ ~ConstructorFails(last'.fn)
           /\ ~(last'.opts.fill /\ FillFails(last'.cnt, last'.fn))
           /\ \E i \in DOMAIN Useful(last'.fn) :
                  "Constructor" \in Implements(last'.fn.rets[i].cls)
           /\ ~Resolvable(getResolver(last'.cnt), "context.Context", DefaultBindName))
          => /\ last'.err = ErrNotFound("context.Context")
             /\ bindings' = bindings
      ]_vars

\* the goroutine p holds the lock of the container cnt, shared or exclusive
HoldsLock(p, cnt) == locks[cnt].readers[p] > 0 \/ locks[cnt].w = p

\* user code runs in the goroutine p: the innermost call p is in has reached a
\* constructor, a factory or a Construct hook, which has not returned (and is
\* not itself in a call of the package)
InUserCode(p) == At(p, "User")

\* the goroutine p is in a call
Busy(p) == stacks[p].frames # << >>

NoLockInUserCode ==
    \A p \in Procs : InUserCode(p) => \A cnt \in Containers : ~HoldsLock(p, cnt)

\* while a goroutine is in a call, some goroutine can take a step
NoDeadlock == (\E p \in Procs : Busy(p)) => \E p \in Procs : ENABLED Run(p)

\* C19: no goroutine holds a lock of a container, shared or exclusive, while
\* user code runs in it (a constructor, a factory, a Construct hook, and the
\* calls they make back into the package); the goroutines never all wait for
\* one another; and every call a goroutine is in returns.
C19_NoLockHeldInUserCode ==
    /\ []NoLockInUserCode
    /\ []NoDeadlock
    /\ \A p \in Procs : Busy(p) ~> ~Busy(p)

\* the constructor of a Singleton has called Reset on the same container, which
\* is writing the bindings, while another goroutine is in a call
C19_Witness ==
    \E p \in Procs :
       /\ Len(stacks[p].frames) = 2
       /\ stacks[p].frames[1].op = "Singleton"
       /\ stacks[p].frames[2].op = "Reset"
       /\ At(p, "Write")
       /\ \E q \in Procs \ {p} : Busy(q)

\* the goroutine p is about to write, or to read, the bindings of a container:
\* it is inside the critical section of a writer, or of ListBindings
Writing(p) == At(p, "Write")
Reading(p) == At(p, "Read")

\* every goroutine in a call is inside ListBindings
ReadersTogether == \A p \in Procs : Reading(p)

FillFailedNow == last.op = "Fill" /\ last.err # NoErr

\* a Fill of a slice or of a map that fails leaves the receiver as it was
CollectionFillAllOrNothing ==
    (FillFailedNow /\ ElemKind(TypeOf(last.receiver)) \in {"slice", "map"})
       => last.val = last.receiver

\* C21: a Fill that returns an error leaves its receiver as it was before the
\* call: no field of a struct has been assigned, a slice or a map keeps its
\* contents.
C21_FailedFillLeavesReceiver == FillFailedNow => last.val = last.receiver

\* the latest call was a Resolve, a Call or a Fill
ResolvedNow == last.op \in {"Resolve", "Call", "Fill"}

\* C22: a Resolve, a Call or a Fill leaves the bindings of every container as
\* they were: none is added, removed or replaced, a factory binding is a
\* factory binding after it has been materialized and an instance binding
\* holds the instance it held.
C22_ResolutionLeavesBindings ==
    [][ResolvedNow' => bindings' = bindings]_vars

\* a Resolve has materialized a factory binding
C22_Witness ==
    /\ last.op = "Resolve"
    /\ last.abstraction # ""
    /\ last.err = NoErr
    /\ last.log # << >>
    /\ FactoryBound(last.r, last.abstraction, last.name)

\* the Binding holds a ready instance or a deferred constructor, and not both
ExactlyOne(bnd) == (bnd.instance # NilVal) # (bnd.factory # NilFn)

\* C23: every Binding a container holds, and every Binding a resolver selects
\* (the Binding made of a With implementation included), holds exactly one of
\* an instance and a factory.
C23_BindingHoldsInstanceOrFactory ==
    /\ \A cnt \in Containers : \A t \in DOMAIN bindings[cnt] :
          \A name \in DOMAIN bindings[cnt][t] : ExactlyOne(bindings[cnt][t][name])
    /\ \A i \in DOMAIN resolvers : \A t \in Types : \A name \in Names :
          getBinding(resolvers[i], t, name).err = NoErr
             => ExactlyOne(Selected(resolvers[i], t, name))

\* C23 for the bindings that hold anything: none holds both an instance and a
\* factory
NeverBoth ==
    \A cnt \in Containers : \A t \in DOMAIN bindings[cnt] :
       \A name \in DOMAIN bindings[cnt][t] :
          ~(bindings[cnt][t][name].instance # NilVal /\ bindings[cnt][t][name].factory # NilFn)

\* the latest call was a Singleton, a Factory or an Implementation that succeeded
BoundNow == last.op \in {"Singleton", "Factory", "Implementation"} /\ last.err = NoErr

\* the names the latest bind stores its i-th value under: a factory and
\* Implementation take the first name given, a constructor of one value every
\* name given, a constructor of several values the name of the position
TargetNames(i) ==
    IF last.opts.names = << >> THEN {DefaultBindName}
    ELSE IF last.op \in {"Factory", "Implementation"} THEN {last.opts.names[1]}
    ELSE IF Len(Useful(last.fn)) = 1 THEN Range(last.opts.names)
    ELSE {NameOf(last.opts, i)}

\* the (type, name) pairs the latest bind stores, each with the Binding made for it
Stored ==
    IF last.op = "Implementation"
    THEN { <<TypeOf(last.val), name, Binding(NilFn, last.val, FALSE)>> : name \in TargetNames(1) }
    ELSE UNION { { <<last.fn.outs[i], name,
                     IF last.op = "Factory" THEN Binding(last.fn, NilVal, last.opts.fill)
                     ELSE Binding(NilFn, last.rets[i], last.opts.fill)>> :
                   name \in TargetNames(i) } : i \in DOMAIN Useful(last.fn) }

\* the (type, name) pairs the bindings bnds of a container bind
PairsOf(bnds) == UNION { { <<t, name>> : name \in DOMAIN bnds[t] } : t \in DOMAIN bnds }

\* C24: a successful Singleton, Factory or Implementation leaves under every
\* (type, name) pair it stores one of the Bindings it made for that pair, whole
\* (whatever the pair held before), and leaves every other pair of the
\* container, and the other containers, as they were.
C24_RebindReplacesThePairOnly ==
    [][BoundNow' =>
         /\ \A x \in Stored' :
               /\ <<x[1], x[2]>> \in PairsOf(bindings'[last'.cnt])
               /\ \E y \in Stored' :
                     /\ y[1] = x[1] /\ y[2] = x[2]
                     /\ bindings'[last'.cnt][x[1]][x[2]] = y[3]
         /\ \A p \in PairsOf(bindings[last'.cnt]) \cup PairsOf(bindings'[last'.cnt]) :
               (\A x \in Stored' : <<x[1], x[2]>> # p)
                  => /\ p \in PairsOf(bindings[last'.cnt])
                     /\ p \in PairsOf(bindings'[last'.cnt])
                     /\ bindings'[last'.cnt][p[1]][p[2]] = bindings[last'.cnt][p[1]][p[2]]
         /\ \A cnt \in Containers \ {last'.cnt} : bindings'[cnt] = bindings[cnt]
      ]_vars

\* Factory(newCircle, WithName(kek, bek)) after Singleton(newCircle,
\* WithName(kek, bek)): the factory has replaced the singleton under kek, bek
\* still holds the singleton
C24_Witness ==
    /\ last.op = "Factory"
    /\ last.err = NoErr
    /\ "Shape" \in DOMAIN bindings[last.cnt]
    /\ DOMAIN bindings[last.cnt]["Shape"] = {"kek", "bek"}
    /\ bindings[last.cnt]["Shape"]["kek"] = Binding(last.fn, NilVal, FALSE)
    /\ bindings[last.cnt]["Shape"]["bek"].instance # NilVal

\* the types the factory selected for (abstraction, default) asks for
Requires(r, abstraction) ==
    IF FactoryBound(r, abstraction, DefaultBindName)
    THEN Range(Selected(r, abstraction, DefaultBindName).factory.ins)
    ELSE {}

RECURSIVE Reaches(_, _, _, _)
\* resolving t through r asks for u within n constructors
Reaches(r, t, u, n) ==
    /\ n > 0
    /\ \/ u \in Requires(r, t)
       \/ \E v \in Requires(r, t) : Reaches(r, v, u, n - 1)

\* the dependency graph among the factory constructors seen through r has a cycle
Cyclic(r) == \E t \in Types : Reaches(r, t, t, Cardinality(Types))

\* the constructor asks first for the type it returns
SelfRequiring(fn) == fn.ins # << >> /\ fn.outs # << >> /\ fn.ins[1] = fn.outs[1]

\* the latest call resolved, by the default name, a type whose factory asks for it
ResolvedSelfRequiring ==
    /\ last.op = "Resolve"
    /\ last.name = DefaultBindName
    /\ FactoryBound(last.r, last.abstraction, DefaultBindName)
    /\ SelfRequiring(Selected(last.r, last.abstraction, DefaultBindName).factory)

\* C25: where the factories seen through the resolver require each other
\* without a cycle, Resolve, Call and Fill end with a value or an error; a
\* factory whose constructor requires the type it returns is accepted by
\* Factory, and resolving that type descends without end (the descent is cut
\* by the stack, the constructor is never invoked, nothing is returned).
C25_AcyclicTerminatesCycleUndetected ==
    /\ (ResolvedNow /\ ~Cyclic(last.r)) => last.err # StackOverflow
    /\ (last.op = "Factory" /\ SelfRequiring(last.fn)) => last.err = NoErr
    /\ ResolvedSelfRequiring => (last.err = StackOverflow /\ last.log = << >>)

\* a self-requiring factory was bound and resolving it did not return; a chain
\* of two factories without a cycle resolved
C25_Witness ==
    /\ ResolvedSelfRequiring
    /\ last.err = StackOverflow
    /\ \E cnt \in Containers : nbinds[cnt] > 0

C25_WitnessAcyclic ==
    /\ last.op = "Resolve" /\ last.abstraction = "Database" /\ last.err = NoErr
    /\ ~Cyclic(last.r)
    /\ Requires(last.r, "Shape") = {} /\ FactoryBound(last.r, "Shape", DefaultBindName)

C25_WitnessFactory == last.op = "Factory" /\ SelfRequiring(last.fn) /\ last.err = NoErr

C25_WitnessTwoCycle ==
    /\ ResolvedNow /\ last.err = StackOverflow
    /\ Requires(last.r, "Shape") = {"Database"}

\* What a sequence of lookups, each a <<type, name>>, has to come to while the
\* factories seen through r have no cycle: the first lookup that is unbound
\* gives NotFound for its type, the first constructor that returns an error
\* gives that error, and log holds the constructors called until then.
RECURSIVE Expected(_, _, _, _, _)
RECURSIVE ExpectedOf(_, _, _, _, _)

Asked(types) == [i \in DOMAIN types |-> <<types[i], DefaultBindName>>]

\* a is what the parameters of the factory came to
ExpectedMade(fn, a) ==
    IF a.err # NoErr THEN a
    ELSE [err |-> IF ConstructorFails(fn) THEN Err("user", fn.name) ELSE NoErr,
          log |-> Append(a.log, fn.name)]

ExpectedOf(r, abstraction, name, log, n) ==
    IF Unbound(r, abstraction, name) THEN [err |-> ErrNotFound(abstraction), log |-> log]
    ELSE IF ~FactoryBound(r, abstraction, name) \/ n = 0 THEN [err |-> NoErr, log |-> log]
    ELSE ExpectedMade(Selected(r, abstraction, name).factory,
                      Expected(r, Asked(Selected(r, abstraction, name).factory.ins), 1, log, n - 1))

\* e is what the i-th lookup came to
ExpectedNext(r, lookups, i, e, n) ==
    IF e.err # NoErr THEN e ELSE Expected(r, lookups, i + 1, e.log, n)

Expected(r, lookups, i, log, n) ==
    IF i > Len(lookups) THEN [err |-> NoErr, log |-> log]
    ELSE ExpectedNext(r, lookups, i,
                      ExpectedOf(r, lookups[i][1], lookups[i][2], log, n), n)

\* the lookups the latest call makes itself, in order
TopLookups ==
    CASE last.op = "Resolve" -> << <<last.abstraction, last.name>> >>
      [] last.op \in {"Call", "Singleton"} -> Asked(last.fn.ins)
      [] last.op = "Fill" ->
           [i \in DOMAIN StructFields(TypeOf(last.receiver)) |->
              <<StructFields(TypeOf(last.receiver))[i].type,
                FieldName(StructFields(TypeOf(last.receiver))[i])>>]
      [] OTHER -> << >>

\* the resolver the latest call looks up through
TopResolver == IF last.op = "Singleton" THEN getResolver(last.cnt) ELSE last.r

\* the latest call is one that materializes what it asks for
Materializing ==
    \/ last.op = "Resolve" /\ last.abstraction # ""
    \/ last.op = "Call" /\ last.fn.kind = "func"
    \/ last.op = "Fill" /\ ElemKind(TypeOf(last.receiver)) = "struct"
    \/ last.op = "Singleton" /\ ~Rejected(last.fn, last.opts)

ExpectedNow == Expected(TopResolver, TopLookups, 1, << >>, Cardinality(Types))

\* the names of the functions called during the latest call, in order
CalledNames == [k \in DOMAIN last.log |-> last.log[k].fn]

\* a dependency below the lookups of the call itself fails
NestedFailure ==
    /\ Materializing
    /\ ~Cyclic(TopResolver)
    /\ ExpectedNow.err # NoErr
    /\ \A i \in DOMAIN TopLookups :
          ExpectedNow.err.code = "NotFound" => ExpectedNow.err.arg # TopLookups[i][1]

C26_WitnessError ==
    /\ NestedFailure
    /\ last.op = "Call"
    /\ last.err = Err("user", "bindError")
    /\ CalledNames = <<"bindError">>
    /\ last.fn.ins = <<"Database", "Shape">>

\* the registries of the chain of r that bind (abstraction, name), by position
BindingRegistries(r, abstraction, name) ==
    { i \in DOMAIN r.containers : BoundIn(bindings[r.containers[i]], abstraction, name) }

\* the Binding of the first registry of the chain that binds (abstraction, name)
FirstRegistryBinding(r, abstraction, name) ==
    bindings[r.containers[Min(BindingRegistries(r, abstraction, name))]][abstraction][name]

\* the latest call filled a string-keyed map through a resolver without With()
\* implementations
MapFilledNow ==
    /\ last.op = "Fill"
    /\ last.err = NoErr
    /\ ElemKind(TypeOf(last.receiver)) = "map"
    /\ last.r.implementations = << >>

\* C27: the value a Fill of a map[string]T places under a name is the
\* materialization of the Binding that Resolve of (T, name) selects, the one
\* of the first registry of the chain that binds it; stated for the bindings
\* that hold an instance, whose materialization is that instance.
C27_MapFillTakesFirstRegistry ==
    MapFilledNow =>
       \A name \in DOMAIN last.val.fld :
          /\ Selected(last.r, ElemType(TypeOf(last.receiver)), name)
                = FirstRegistryBinding(last.r, ElemType(TypeOf(last.receiver)), name)
          /\ InstanceBound(last.r, ElemType(TypeOf(last.receiver)), name)
                => last.val.fld[name]
                      = Selected(last.r, ElemType(TypeOf(last.receiver)), name).instance

\* C29: when Call returns an error (NotFound for an argument, the function's
\* own error, ReturnCountMismatch, ReturnTypeMismatch), no return target has
\* been assigned: every variable handed to WithReturn holds what it held, here
\* its zero value, also the targets before one of a mismatching type.
C29_FailedCallAssignsNoTarget ==
    (last.op = "Call" /\ last.err # NoErr)
       => \A i \in DOMAIN last.rets : last.rets[i].val = NilVal

\* a Call that fails before its loop over the targets leaves them as they were
FailedBeforeAssigning ==
    (last.op = "Call" /\ last.err # NoErr /\ last.err.code # "ReturnTypeMismatch")
       => \A i \in DOMAIN last.rets : last.rets[i].val = NilVal

\* the latest call was With on a resolver that With had returned
WithOnWith == last.op = "With" /\ last.r.implementations # << >>

\* the resolver the latest With returned
ReturnedResolver == resolvers[Len(resolvers)]

\* one of the implementations can stand for the type
Satisfies(implementations, abstraction) ==
    \E i \in DOMAIN implementations : AssignableTo(TypeOf(implementations[i]), abstraction)

\* C30: With replaces the implementations: r.With(a).With(b) has the
\* containers of r and the implementations b only, so that a default-named
\* request that a satisfies and b does not is answered as the resolver over
\* the containers alone answers it (from a registry, or NotFound), not with a.
C30_WithReplacesImplementations ==
    WithOnWith =>
       /\ ReturnedResolver.containers = last.r.containers
       /\ ReturnedResolver.implementations = last.rets
       /\ \A abstraction \in {"Shape", "Database", "*Circle"} :
             ~Satisfies(last.rets, abstraction) =>
                /\ Resolve(ReturnedResolver, abstraction, DefaultBindName, Effects(next, << >>))
                      = Resolve(NewResolver(last.r.containers), abstraction, DefaultBindName,
                                Effects(next, << >>))
                /\ \A i \in DOMAIN last.r.implementations :
                      Resolve(ReturnedResolver, abstraction, DefaultBindName, Effects(next, << >>)).val
                         # last.r.implementations[i]

\* r.With(mysql, circle, circle').With(mysql), with Shape bound in a registry:
\* the first resolver answers Shape with circle, the second from the registry
C30_Witness ==
    /\ WithOnWith
    /\ Satisfies(last.r.implementations, "Shape")
    /\ ~Satisfies(last.rets, "Shape")
    /\ Resolve(last.r, "Shape", DefaultBindName, Effects(next, << >>)).val
          = last.r.implementations[2]
    /\ Resolve(ReturnedResolver, "Shape", DefaultBindName, Effects(next, << >>)).err = NoErr

\* the write the call of the frame makes goes into the map the container
\* holds for the type t: bind writes the maps of the types its constructor
\* returns, Implementation the map of the type of its value, Reset none
WritesMapOf(frame, t) ==
    CASE frame.op \in {"Singleton", "Factory"} ->
           \E i \in 1..numRealInstances(frame.fn) : frame.fn.outs[i] = t
      [] frame.op = "Implementation" -> TypeOf(frame.val) = t
      [] OTHER -> FALSE

\* the goroutine p is about to index the map the container holds for a type,
\* with no lock held, while the goroutine q is about to write into that map
MapRace(p, q) ==
    /\ At(p, "Index")
    /\ Head(Top(p).todo).held = << >>
    /\ Writing(q)
    /\ Top(q).cnt = Top(p).cnt
    /\ WritesMapOf(Top(q), Head(Top(p).todo).t)

\* C28: a resolver's read of the map of a type never overlaps a Singleton,
\* Factory or Implementation write to that map: no goroutine indexes the map
\* that ListBindings handed out while another is writing into it.
C28_MapReadNeverOverlapsWrite ==
    \A p \in Procs : \A q \in Procs \ {p} : ~MapRace(p, q)

\* whoever indexes a map holds no lock of the container
IndexedUnlocked ==
    \A p \in Procs : At(p, "Index") => ~HoldsLock(p, Top(p).cnt)

====
